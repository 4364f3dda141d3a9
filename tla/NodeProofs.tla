----------------------------- MODULE NodeProofs -----------------------------
(***************************************************************************)
(* Theorems about the node for every set of stations and requests, every   *)
(* length of a cycle and every combination of faults, about the store it   *)
(* saves to for every set of names and contents, about its button for      *)
(* every order of the thresholds and every size of the ring, about the     *)
(* board on its switched rail for every configuration and clock, about     *)
(* its radio for every set of registers, guard and clock, and about its    *)
(* settings for every set of types, every default and every packet.        *)
(*                                                                         *)
(* The node: a number and the settings have two places, the flash and the  *)
(* memory, and each history is tied to both.  NumberInv ties the number of *)
(* the last save to the image, which a restart reads, and to the counter,  *)
(* which goes on from it.  SettingsInv says that while the last save did   *)
(* not fail, the flash holds the settings in force, but for the moment     *)
(* from applying a request to saving it.  SleepInv adds that a cycle that  *)
(* ended well left everything in the flash.                                *)
(*                                                                         *)
(* The store: a key has two contents too, the one the process sees and the *)
(* one on the disk.  KeysAreWhole says that both are among those it may    *)
(* have, which makes any mixture a power cut leaves one of them;           *)
(* WriteIsUnderWay says what is true between the system calls of a write.  *)
(*                                                                         *)
(* The button: Accounted and InOrder are what a call of the loop leaves    *)
(* true, stated for every point inside a call as well; the interrupt keeps *)
(* them there because it may then only set the time of the press.          *)
(*                                                                         *)
(* The cart: its clock wraps, the history counts true time.  ClockTells    *)
(* says that within a window they agree; that holds because WindowHolds    *)
(* has a window over, counted from the last tick, before the clock comes   *)
(* around, and a window is over because the clock told its time.           *)
(*                                                                         *)
(* The radio: no command for a mode touches the registers, and GuardTells  *)
(* says where on the wrapping clock the guard ends, as long as a whole     *)
(* clock has not gone by without a write.                                  *)
(*                                                                         *)
(* The settings: a block in force is Orderly, its seeded records where the *)
(* defaults have them, because a record is changed in place or appended.   *)
(* This is what makes a report of the settings rebuild the block on        *)
(* another node: replayed over the defaults, pair i of the report leaves   *)
(* the first i records as they were sent (PackBack, one pair at a time by  *)
(* CountingUp).  WriteMeans says what a write gives its key; its neighbour *)
(* keeps what it had, for the two halves of a statement are written apart. *)
(***************************************************************************)
EXTENDS SensorNode, Settings, Datastore, Button, Cart, Radio, Scans

NumberInv ==
  /\ burnt > 0 => image.saved /\ burnt <= image.sequence
  /\ pc # "power" => node.sequence >= burnt

SettingsInv ==
  /\ pc \in Listen => settings \in Valid
  /\ pc \in Awake \ {"commit"} /\ ~failed => image.saved /\ image.settings = settings
  /\ pc \in Awake /\ open /\ told # Untold => settings = told

SleepInv ==
  pc \in {"rest", "sleep"} /\ ~failed =>
    /\ image.saved
    /\ image.settings = settings /\ image.sequence = node.sequence
    /\ settings.station = node.station

IInv ==
  TypeOK /\ NumberInv /\ SettingsInv /\ SleepInv /\ StationAgrees /\ ToldIsKept


-----------------------------------------------------------------------------
LEMMA Places ==
  /\ "power" \in Off /\ "reset" \in Off /\ "sleep" \in Off
  /\ Listen \subseteq Awake /\ "commit" \in Awake
  /\ Off \intersect Awake = {}
BY DEF Off, Awake, Listen

LEMMA ValidTypes ==
  /\ Zero \notin Valid
  /\ \A s \in Stations : Defaults(s) \in Valid
  /\ \A s \in Valid : s.station \in Stations /\ s.window # 0
BY NodeAssumption DEF Valid, Zero, Defaults

(* A request never takes settings out of their range. *)
LEMMA AppliedValid ==
  ASSUME NEW s \in Valid, NEW r \in Requests
  PROVE  Applied(s, r) \in Valid
BY NodeAssumption DEF Valid, Applied, Assignable

LEMMA InitInv == Init => IInv
<1> SUFFICES ASSUME Init PROVE IInv
  OBVIOUS
<1>1. Mac \in Stations /\ Defaults(Mac) \in Valid
  BY NodeAssumption, ValidTypes
<1>2. TypeOK
  BY <1>1, NodeAssumption DEF Init, TypeOK, Blank, Fresh, Nodes, Off, Untold
<1>3. QED
  BY <1>2 DEF Init, IInv, NumberInv, SettingsInv, SleepInv, StationAgrees, ToldIsKept,
              Awake, Listen, Untold

-----------------------------------------------------------------------------
(* What every step takes from the invariant. *)
LEMMA Unfolded ==
  ASSUME IInv
  PROVE  /\ image.saved \in BOOLEAN /\ image.settings \in Valid /\ image.sequence \in Nat
         /\ node.station \in Stations /\ node.sequence \in Nat /\ node.elapsed \in Nat
         /\ node.pending \in BOOLEAN
         /\ burnt \in Nat
BY DEF IInv, TypeOK, Nodes

(* A boot that reads the flash, or does not. *)
LEMMA BootInv == IInv /\ Boot => IInv'
<1> SUFFICES ASSUME IInv, Boot PROVE IInv'
  OBVIOUS
<1> USE Unfolded
<1>1. Mac \in Stations
  BY NodeAssumption
<1>2. Kept(node) \in Nodes
  BY <1>1 DEF Kept, Fresh, Nodes, IInv, TypeOK
<1>3. /\ pc' = "packet" /\ image' = image /\ advertise' = FALSE /\ reboot' = FALSE
  BY DEF Boot
<1>4. ASSUME NEW lost \in Losses,
             open' = TRUE,
             settings' = LoadedSettings(Kept(node), lost),
             node' = [Kept(node) EXCEPT
                        !.station = StationRestored(Kept(node), settings'),
                        !.sequence = LoadedNumber(lost)],
             burnt' = IF node'.station # node.station \/ "sequence" \in lost
                        THEN 0 ELSE burnt,
             failed' = (lost # {} \/ ~image.saved),
             told' = IF "settings" \in lost THEN Untold ELSE told
      PROVE  IInv'
  <2>1. settings' \in Valid
    BY <1>2, <1>4, ValidTypes DEF LoadedSettings, Nodes
  <2>2. LoadedNumber(lost) \in Nat
    BY DEF LoadedNumber
  <2>3. /\ node' \in Nodes
        /\ node'.station = settings'.station /\ node'.sequence = LoadedNumber(lost)
    BY <1>2, <1>4, <2>1, <2>2, ValidTypes DEF Nodes, StationRestored, Assignable
  <2>4. TypeOK'
    BY <1>3, <1>4, <2>1, <2>3 DEF IInv, TypeOK, Awake
  <2>5. NumberInv'
    BY <1>3, <1>4, <2>3 DEF IInv, NumberInv, LoadedNumber, Restored
  <2>6. SettingsInv' /\ SleepInv' /\ StationAgrees'
    BY <1>3, <1>4, <2>1, <2>3
       DEF IInv, SettingsInv, SleepInv, StationAgrees, ToldIsKept, LoadedSettings,
           Restored, Listen, Awake
  <2>7. ToldIsKept'
    BY <1>3, <1>4 DEF IInv, ToldIsKept
  <2>8. QED
    BY <2>4, <2>5, <2>6, <2>7 DEF IInv
<1>5. ASSUME open' = FALSE, settings' = Zero, node' = Kept(node),
             burnt' = IF pc = "power" THEN 0 ELSE burnt, failed' = TRUE, told' = told
      PROVE  IInv'
  <2>1. TypeOK'
    BY <1>2, <1>3, <1>5 DEF IInv, TypeOK, Awake
  <2>2. NumberInv'
    BY <1>2, <1>3, <1>5 DEF IInv, NumberInv, Kept, Nodes
  <2>3. SettingsInv' /\ SleepInv' /\ StationAgrees' /\ ToldIsKept'
    BY <1>3, <1>5 DEF IInv, SettingsInv, SleepInv, StationAgrees, ToldIsKept, Listen
  <2>4. QED
    BY <2>1, <2>2, <2>3 DEF IInv
<1>6. QED
  BY <1>4, <1>5 DEF Boot


(* A save, and a save that fails: what is in the flash is what is in force,  *)
(* or it is known not to be.                                                *)
LEMMA FlushKeeps ==
  ASSUME IInv, pc \in Awake, NEW n \in Nodes, Flush(n),
         n.station = node.station => n.sequence = node.sequence
  PROVE  /\ image' \in [saved : BOOLEAN, settings : Valid, sequence : Nat]
         /\ burnt' \in Nat /\ failed' \in BOOLEAN
         /\ burnt' > 0 => image'.saved /\ burnt' <= image'.sequence
         /\ n.sequence >= burnt'
         /\ ~failed' => /\ open
                       /\ image'.saved /\ image'.settings = settings
                       /\ image'.sequence = n.sequence
         /\ told # Untold => image'.saved /\ image'.settings = told
<1> USE Unfolded
<1>1. n.sequence \in Nat
  BY DEF Nodes
<1>2. CASE open /\ image' = Saved(n, settings) /\ burnt' = n.sequence /\ failed' = FALSE
  <2>1. settings \in Valid
    BY <1>2 DEF IInv, TypeOK
  <2>2. /\ image' \in [saved : BOOLEAN, settings : Valid, sequence : Nat]
        /\ image'.saved /\ image'.settings = settings /\ image'.sequence = n.sequence
    BY <1>1, <1>2, <2>1 DEF Saved
  <2>3. told # Untold => settings = told
    BY <1>2 DEF IInv, SettingsInv
  <2>4. burnt' \in Nat /\ n.sequence >= burnt' /\ burnt' <= image'.sequence
    BY <1>1, <1>2, <2>2
  <2>5. /\ open /\ image'.settings = settings /\ image'.sequence = n.sequence
    BY <1>2, <2>2
  <2>6. told # Untold => image'.settings = told
    BY <2>2, <2>3
  <2>7. QED
    BY <1>2, <2>2, <2>4, <2>5, <2>6
<1>3. CASE /\ burnt' = IF n.station = node.station THEN burnt ELSE 0
           /\ failed' = TRUE /\ image' = image
  <2>1. pc # "power"
    BY Places
  <2>2. n.sequence >= burnt' /\ burnt' \in Nat /\ burnt' <= burnt
    BY <1>1, <1>3, <2>1 DEF IInv, NumberInv
  <2>3. QED
    BY <1>3, <2>2 DEF IInv, TypeOK, NumberInv, ToldIsKept
<1>4. QED
  BY <1>2, <1>3 DEF Flush

(* A frame changes no more than the number, which never goes back. *)
LEMMA SendsKeeps ==
  ASSUME node \in Nodes, NEW out \in Outcomes, Sends(out)
  PROVE  /\ node' \in Nodes /\ node'.station = node.station
         /\ node'.sequence \in Nat /\ node'.sequence >= node.sequence
BY DEF Sends, Used, Nodes

-----------------------------------------------------------------------------
(* The steps of a cycle. *)
LEMMA CycleInv == IInv /\ Cycle => IInv'
<1> SUFFICES ASSUME IInv, Cycle PROVE IInv'
  OBVIOUS
<1> USE Unfolded, Places
<1> USE DEF IInv, TypeOK, NumberInv, SettingsInv, SleepInv, StationAgrees, ToldIsKept
<1>1. CASE Packet
  BY <1>1 DEF Packet, Awake, Listen
<1>2. CASE Transmit
  <2>1. PICK out \in Outcomes : Sends(out)
    BY <1>2 DEF Transmit
  <2>2. /\ node' \in Nodes /\ node'.station = node.station
        /\ node'.sequence \in Nat /\ node'.sequence >= node.sequence
    BY <2>1, SendsKeeps
  <2>3. QED
    BY <1>2, <2>2 DEF Transmit, Awake, Listen
<1>3. CASE WindowBegin
  <2>1. node' \in Nodes /\ node'.station = node.station /\ node'.sequence = node.sequence
    BY <1>3 DEF WindowBegin, Nodes
  <2>2. settings.window # 0 => settings \in Valid
    BY DEF Zero
  <2>3. QED
    BY <1>3, <2>1, <2>2 DEF WindowBegin, Awake, Listen
<1>4. CASE Close
  BY <1>4 DEF Close, Awake, Listen
<1>5. CASE Final
  BY <1>5, FlushKeeps DEF Final, Awake, Listen
<1>6. CASE Rest
  <2>1. PICK d \in Periods : node' = Advanced(node, d)
    BY <1>6 DEF Rest
  <2>2. node' \in Nodes /\ node'.station = node.station /\ node'.sequence = node.sequence
    <3> DEFINE due == node.elapsed + d >= settings.interval
    <3>1. d \in Nat /\ node.elapsed + d \in Nat /\ settings.interval \in Nat
      BY NodeAssumption DEF Valid, Zero
    <3>2. due \in BOOLEAN
      BY <3>1
    <3>3. \/ node' = node
          \/ node' = [node EXCEPT !.elapsed = node.elapsed + d, !.pending = due]
      BY <2>1 DEF Advanced
    <3> HIDE DEF due
    <3>4. QED
      BY <3>1, <3>2, <3>3 DEF Nodes
  <2>3. QED
    BY <1>6, <2>2 DEF Rest, Awake, Listen
<1>7. QED
  BY <1>1, <1>2, <1>3, <1>4, <1>5, <1>6 DEF Cycle

(* The commands of a window. *)
LEMMA OnFrameInv == IInv /\ OnFrame => IInv'
<1> SUFFICES ASSUME IInv, OnFrame PROVE IInv'
  OBVIOUS
<1> USE Unfolded, Places
<1> USE DEF IInv, TypeOK, NumberInv, SettingsInv, SleepInv, StationAgrees, ToldIsKept
<1>1. ASSUME NEW r \in Requests, Apply(r) PROVE IInv'
  <2>1. settings' \in Valid
    BY <1>1, AppliedValid DEF Apply, Listen
  <2>2. QED
    BY <1>1, <2>1 DEF Apply, Awake, Listen, Untold
<1>2. CASE Commit
  BY <1>2, FlushKeeps DEF Commit, Awake, Listen
<1>3. CASE Adopt
  <2>1. settings \in Valid /\ settings.station \in Stations
    BY <1>3, ValidTypes DEF Adopt, Listen
  <2>2. CASE settings.station # node.station /\ Assignable(settings.station)
    <3> DEFINE n == Adopted(node, settings.station)
    <3>1. /\ n \in Nodes /\ n.station = settings.station /\ n.sequence = 0
      BY <2>1 DEF Adopted, Nodes
    <3>2. node' = n /\ Flush(n) /\ pc' = "report"
      BY <1>3, <2>2 DEF Adopt
    <3>3. pc \in Awake
      BY <1>3 DEF Adopt, Awake, Listen
    <3> HIDE DEF n
    <3>4. QED
      BY <1>3, <2>1, <2>2, <3>1, <3>2, <3>3, FlushKeeps DEF Adopt, Awake, Listen
  <2>3. CASE ~(settings.station # node.station /\ Assignable(settings.station))
    BY <1>3, <2>1, <2>3 DEF Adopt, Assignable, Awake, Listen
  <2>4. QED
    BY <2>2, <2>3
<1>4. CASE Report
  <2>1. PICK out \in Outcomes :
          Sends(out) /\ told' = IF out = "refused" \/ failed THEN told ELSE settings
    BY <1>4 DEF Report
  <2>2. settings \in Valid
    BY <1>4 DEF Report, Listen
  <2>3. /\ node' \in Nodes /\ node'.station = node.station
        /\ node'.sequence \in Nat /\ node'.sequence >= node.sequence
    BY <2>1, SendsKeeps
  <2>4. told' = told \/ (~failed /\ told' = settings)
    BY <2>1
  <2>5. QED
    BY <1>4, <2>2, <2>3, <2>4 DEF Report, Awake, Listen
<1>5. CASE Answer
  <2>1. PICK out \in Outcomes : Sends(out)
    BY <1>5 DEF Answer
  <2>2. /\ node' \in Nodes /\ node'.station = node.station
        /\ node'.sequence \in Nat /\ node'.sequence >= node.sequence
    BY <2>1, SendsKeeps
  <2>3. QED
    BY <1>5, <2>2 DEF Answer, Awake, Listen
<1>6. CASE RebootCommand
  BY <1>6 DEF RebootCommand, Awake, Listen
<1>7. CASE RollbackCommand
  BY <1>7 DEF RollbackCommand, Awake, Listen
<1>8. QED
  BY <1>1, <1>2, <1>3, <1>4, <1>5, <1>6, <1>7 DEF OnFrame

(* A restart, between any two steps. *)
LEMMA RestartInv == IInv /\ (PowerCut \/ Reset) => IInv'
<1> SUFFICES ASSUME IInv, PowerCut \/ Reset PROVE IInv'
  OBVIOUS
<1> USE Unfolded, Places
<1> USE DEF IInv, TypeOK, NumberInv, SettingsInv, SleepInv, StationAgrees, ToldIsKept
<1>1. CASE PowerCut
  BY <1>1 DEF PowerCut, Awake, Listen
<1>2. CASE Reset
  BY <1>2 DEF Reset, Awake, Listen
<1>3. QED
  BY <1>1, <1>2

LEMMA StepInv == IInv /\ [Next]_vars => IInv'
<1> SUFFICES ASSUME IInv, [Next]_vars PROVE IInv'
  OBVIOUS
<1>1. CASE UNCHANGED vars
  BY <1>1 DEF vars, IInv, TypeOK, NumberInv, SettingsInv, SleepInv, StationAgrees, ToldIsKept
<1>2. QED
  BY <1>1, BootInv, CycleInv, OnFrameInv, RestartInv DEF Next

-----------------------------------------------------------------------------
(* The strengthening holds of every state the node can be in. *)
THEOREM InvariantHolds == Spec => []IInv
BY InitInv, StepInv, PTL DEF Spec

(* The settings in force and in the flash stay in range, with every request  *)
(* and after every restart.                                                 *)
THEOREM TypeCorrect == Spec => []TypeOK
<1>1. IInv => TypeOK
  BY DEF IInv
<1>2. QED
  BY <1>1, InvariantHolds, PTL

(* No number consumed before a save is used again after it, through every    *)
(* restart of iapp_init and every save that fails.                          *)
THEOREM NumbersGoOn == Spec => []SavedIsNotReused
<1>1. IInv => SavedIsNotReused
  BY Places DEF IInv, NumberInv, SavedIsNotReused
<1>2. QED
  BY <1>1, InvariantHolds, PTL

(* The frames of a node carry the station its settings name. *)
THEOREM IdentityFollows == Spec => []StationAgrees
<1>1. IInv => StationAgrees
  BY DEF IInv
<1>2. QED
  BY <1>1, InvariantHolds, PTL

(* Settings that were reported with the last save not failed are what a      *)
(* restart loads.                                                           *)
THEOREM PromisesAreKept == Spec => []ToldIsKept
<1>1. IInv => ToldIsKept
  BY DEF IInv
<1>2. QED
  BY <1>1, InvariantHolds, PTL

(* A deep sleep that was not preceded by a failing save, nor followed by a   *)
(* failing load, changes nothing; and no restart with the power on delays    *)
(* the next window.                                                         *)
THEOREM SleepIsNotFelt == Spec => SleepLosesNothing
<1> DEFINE Felt ==
      Wakes =>
        /\ (pc = "sleep" /\ ~failed /\ open' /\ ~failed') =>
             (node' = node /\ settings' = settings)
        /\ (pc # "power") =>
             (node'.elapsed = node.elapsed /\ node'.pending = node.pending)
<1>1. IInv /\ [Next]_vars => [Felt]_vars
  <2> SUFFICES ASSUME IInv, Next, Wakes PROVE Felt
    OBVIOUS
  <2>1. Boot
    BY Places DEF Wakes, Next, Cycle, OnFrame, Packet, Transmit, WindowBegin, Close, Final,
       Rest, Apply, Commit, Adopt, Report, Answer, RebootCommand, RollbackCommand,
       PowerCut, Reset, Off, Awake, Listen
  <2>2. node \in Nodes
    BY DEF IInv, TypeOK
  <2>3. ASSUME pc # "power" PROVE node'.elapsed = node.elapsed /\ node'.pending = node.pending
    BY <2>1, <2>2, <2>3 DEF Boot, Kept, Nodes
  <2>4. ASSUME pc = "sleep", ~failed, open', ~failed'
        PROVE  node' = node /\ settings' = settings
    <3>1. /\ image.saved /\ image.settings = settings /\ image.sequence = node.sequence
          /\ settings.station = node.station
      BY <2>4 DEF IInv, SleepInv
    <3>2. PICK lost \in Losses :
            /\ lost = {}
            /\ settings' = LoadedSettings(Kept(node), lost)
            /\ node' = [Kept(node) EXCEPT
                          !.station = StationRestored(Kept(node), settings'),
                          !.sequence = LoadedNumber(lost)]
      BY <2>1, <2>4 DEF Boot
    <3>3. Kept(node) = node /\ settings' = settings /\ LoadedNumber(lost) = node.sequence
      BY <2>4, <3>1, <3>2 DEF Kept, LoadedSettings, LoadedNumber, Restored
    <3>4. StationRestored(Kept(node), settings') = node.station
      BY <3>1, <3>3 DEF StationRestored
    <3>5. QED
      BY <2>2, <3>2, <3>3, <3>4 DEF Nodes
  <2>5. QED
    BY <2>3, <2>4
<1>2. QED
  BY <1>1, InvariantHolds, PTL DEF Spec, SleepLosesNothing

-----------------------------------------------------------------------------
(* The store of blobs.                                                       *)

Midway == {"opened", "filled", "flushed", "renamed", "failing"}

DatastoreTypes ==
  /\ medium \in [volatile : BOOLEAN, known : BOOLEAN]
  /\ seen \in [Names -> Files] /\ disk \in [Names -> Files]
  /\ dirty \subseteq Names
  /\ store \in [open : BOOLEAN, persistent : BOOLEAN]
  /\ may \in [BlobKeys -> SUBSET (Files \ {Torn})]
  /\ \/ call = NoCall
     \/ call \in [at : Midway, key : BlobKeys, blob : Blobs, before : SUBSET (Files \ {Torn})]

(* Both directories have of every key a content that was told of, and all of *)
(* it is on the disk: only the other files are ever written to.              *)
KeysAreWhole ==
  \A k \in BlobKeys : seen[k] \in may[k] /\ disk[k] \in may[k] /\ k \notin dirty

StoreTells == store.open => store.persistent = (~medium.known \/ ~medium.volatile)

(* A write in progress: until the file takes the key's place the key has what *)
(* it had before, and before that is tried the other file is whole.          *)
WriteIsUnderWay ==
  call.at # "none" =>
    /\ call.blob \in may[call.key]
    /\ call.at # "renamed" =>
         /\ call.before \subseteq may[call.key]
         /\ seen[call.key] \in call.before /\ disk[call.key] \in call.before
    /\ call.at \in {"filled", "flushed"} => seen[Temp] = call.blob
    /\ call.at = "flushed" => Temp \notin dirty
    /\ call.at = "renamed" => seen[call.key] = call.blob

DatastoreInv == DatastoreTypes /\ KeysAreWhole /\ StoreTells /\ WriteIsUnderWay

LEMMA NamesApart ==
  /\ \A k \in BlobKeys : k \in Names /\ TempOf[k] \in Names \ BlobKeys
  /\ Torn \notin Blobs /\ Absent \notin Blobs /\ Absent # Torn
  /\ Absent \in Files \ {Torn} /\ Torn \in Files /\ Blobs \subseteq Files \ {Torn}
BY DatastoreAssumption DEF Names, Files, Torn, Absent

(* What a write that is under way is about. *)
LEMMA WriteIsOfAKey ==
  ASSUME DatastoreInv, call.at # "none"
  PROVE  /\ call \in [at : Midway, key : BlobKeys, blob : Blobs, before : SUBSET (Files \ {Torn})]
         /\ call.key \in BlobKeys /\ call.blob \in Blobs
         /\ call.key \in Names /\ Temp \in Names \ BlobKeys
BY NamesApart DEF DatastoreInv, DatastoreTypes, NoCall, Temp

LEMMA NoWriteIsUnderWay == NoCall.at = "none"
BY DEF NoCall

(* The store starts with nothing in it. *)
LEMMA DatastoreStart == DatastoreInit => DatastoreInv
BY NamesApart, NoWriteIsUnderWay
   DEF DatastoreInit, DatastoreInv, DatastoreTypes, KeysAreWhole, StoreTells, WriteIsUnderWay, Empty

(* A step of a write that moves no file of a key and tells nobody anything. *)
LEMMA StepKeeps ==
  ASSUME DatastoreInv, call.at \in Midway \ {"renamed"},
         NEW at \in Midway \ {"renamed"}, Step(at), UNCHANGED disk,
         seen' \in [Names -> Files], dirty' \subseteq dirty,
         \A k \in BlobKeys : seen'[k] = seen[k],
         at \in {"filled", "flushed"} => seen'[Temp] = call.blob,
         at = "flushed" => Temp \notin dirty'
  PROVE  DatastoreInv'
<1>1. /\ call \in [at : Midway, key : BlobKeys, blob : Blobs, before : SUBSET (Files \ {Torn})]
      /\ call.key \in BlobKeys
  BY WriteIsOfAKey DEF Midway
<1>2. /\ call' \in [at : Midway, key : BlobKeys, blob : Blobs, before : SUBSET (Files \ {Torn})]
      /\ call'.at = at /\ call'.key = call.key
      /\ call'.blob = call.blob /\ call'.before = call.before
  BY <1>1 DEF Step
<1>3. DatastoreTypes' /\ StoreTells'
  BY <1>2 DEF Step, DatastoreInv, DatastoreTypes, StoreTells
<1>4. KeysAreWhole'
  BY DEF Step, DatastoreInv, KeysAreWhole
<1>5. Temp' = Temp
  BY <1>2 DEF Temp
<1>6. /\ call.blob \in may[call.key] /\ call.before \subseteq may[call.key]
      /\ seen[call.key] \in call.before /\ disk[call.key] \in call.before
  BY DEF DatastoreInv, WriteIsUnderWay, Midway
<1>7. WriteIsUnderWay'
  BY <1>1, <1>2, <1>5, <1>6 DEF Step, WriteIsUnderWay
<1>8. QED
  BY <1>3, <1>4, <1>7 DEF DatastoreInv

(* The file takes the key's place: it is whole, in memory and on the disk. *)
LEMMA RenameKeeps ==
  ASSUME DatastoreInv, Rename
  PROVE  DatastoreInv'
<1>1. /\ call.at = "flushed"
      /\ call \in [at : Midway, key : BlobKeys, blob : Blobs, before : SUBSET (Files \ {Torn})]
      /\ call.key \in BlobKeys /\ call.blob \in Blobs
      /\ call.key \in Names /\ Temp \in Names \ BlobKeys
  BY WriteIsOfAKey DEF Rename
<1>2. CASE UNCHANGED <<seen, dirty>> /\ Step("failing")
  BY <1>1, <1>2, StepKeeps DEF Rename, DatastoreInv, DatastoreTypes, Midway
<1>3. CASE /\ seen' = [seen EXCEPT ![call.key] = seen[Temp], ![Temp] = Absent]
           /\ dirty' = {IF n = Temp THEN call.key ELSE n : n \in dirty \ {call.key}}
           /\ Step("renamed")
  <2>1. /\ seen[Temp] = call.blob /\ Temp \notin dirty /\ call.blob \in may[call.key]
        /\ seen \in [Names -> Files] /\ dirty \subseteq Names /\ KeysAreWhole
    BY <1>1 DEF DatastoreInv, DatastoreTypes, WriteIsUnderWay
  <2>2. dirty' = dirty \ {call.key}
    BY <1>3, <2>1
  <2>3. /\ seen' \in [Names -> Files] /\ seen'[call.key] = call.blob
        /\ \A k \in BlobKeys \ {call.key} : seen'[k] = seen[k]
    <3>1. /\ \A k \in Names \ {call.key, Temp} : seen'[k] = seen[k]
          /\ seen'[call.key] = call.blob
          /\ seen' \in [Names -> Files]
      BY <1>1, <1>3, <2>1, NamesApart
    <3>2. QED
      BY <1>1, <3>1, NamesApart
  <2>4. /\ call' \in [at : Midway, key : BlobKeys, blob : Blobs, before : SUBSET (Files \ {Torn})]
        /\ call'.at = "renamed" /\ call'.key = call.key /\ call'.blob = call.blob
    BY <1>1, <1>3 DEF Step, Midway
  <2>5. DatastoreTypes' /\ StoreTells'
    BY <1>3, <2>1, <2>2, <2>3, <2>4
       DEF Rename, Step, DatastoreInv, DatastoreTypes, StoreTells
  <2>6. KeysAreWhole'
    BY <1>3, <2>1, <2>2, <2>3 DEF Rename, Step, KeysAreWhole
  <2>7. WriteIsUnderWay'
    BY <1>3, <2>1, <2>3, <2>4 DEF Step, WriteIsUnderWay
  <2>8. QED
    BY <2>5, <2>6, <2>7 DEF DatastoreInv
<1>4. QED
  BY <1>2, <1>3 DEF Rename

(* A call that ends, or a process that does: no write is under way. *)
LEMMA QuietKeeps ==
  ASSUME DatastoreInv, call' = NoCall,
         DatastoreTypes', KeysAreWhole', StoreTells'
  PROVE  DatastoreInv'
BY NoWriteIsUnderWay DEF DatastoreInv, WriteIsUnderWay

LEMMA CallsKeep ==
  ASSUME DatastoreInv,
         \/ OpenStore \/ CloseStore
         \/ \E k \in BlobKeys : Read(k) \/ Erase(k)
         \/ \E b \in Blobs : WriteRefused(b)
  PROVE  DatastoreInv'
<1> USE NamesApart
<1>1. call' = NoCall /\ call = NoCall /\ medium' = medium
  BY DEF OpenStore, CloseStore, Read, Erase, WriteRefused, DatastoreInv, DatastoreTypes, Midway
<1>2. DatastoreTypes /\ KeysAreWhole /\ StoreTells
  BY DEF DatastoreInv
<1>3. CASE OpenStore
  <2> DEFINE lasts == ~medium.known \/ ~medium.volatile
  <2>1. store' \in {[open |-> TRUE, persistent |-> lasts], [open |-> FALSE, persistent |-> FALSE]}
    BY <1>3, Zenon DEF OpenStore
  <2>2. lasts = TRUE \/ lasts = FALSE
    OBVIOUS
  <2>3. store' \in [open : BOOLEAN, persistent : BOOLEAN]
    <3> HIDE DEF lasts
    <3>1. \A b \in BOOLEAN : /\ [open |-> TRUE, persistent |-> b] \in [open : BOOLEAN, persistent : BOOLEAN]
                             /\ [open |-> FALSE, persistent |-> FALSE] \in [open : BOOLEAN, persistent : BOOLEAN]
      OBVIOUS
    <3>2. lasts \in BOOLEAN
      BY <2>2
    <3>3. QED
      BY <2>1, <3>1, <3>2, Zenon
  <2>4. DatastoreTypes'
    BY <1>1, <1>2, <1>3, <2>3 DEF OpenStore, DatastoreTypes
  <2>5. KeysAreWhole' /\ StoreTells'
    BY <1>1, <1>2, <1>3 DEF OpenStore, KeysAreWhole, StoreTells
  <2>6. QED
    BY <1>1, <2>4, <2>5, QuietKeeps
<1>4. CASE CloseStore
  <2>1. DatastoreTypes' /\ store'.open = FALSE
    BY <1>1, <1>2, <1>4 DEF CloseStore, DatastoreTypes
  <2>2. KeysAreWhole' /\ StoreTells'
    BY <1>1, <1>2, <1>4, <2>1 DEF CloseStore, KeysAreWhole, StoreTells
  <2>3. QED
    BY <1>1, <2>1, <2>2, QuietKeeps
<1>5. ASSUME NEW k \in BlobKeys, Erase(k) PROVE DatastoreInv'
  <2>1. DatastoreTypes'
    BY <1>1, <1>2, <1>5 DEF Erase, DatastoreTypes
  <2>2. /\ \A j \in BlobKeys : seen'[j] = IF j = k THEN Absent ELSE seen[j]
        /\ \A j \in BlobKeys : may'[j] = IF j = k THEN may[j] \cup {Absent} ELSE may[j]
    BY <1>2, <1>5 DEF Erase, DatastoreTypes
  <2>3. KeysAreWhole' /\ StoreTells'
    BY <1>1, <1>2, <1>5, <2>2 DEF Erase, KeysAreWhole, StoreTells
  <2>4. QED
    BY <1>1, <2>1, <2>3, QuietKeeps
<1>6. CASE (\E k \in BlobKeys : Read(k)) \/ \E b \in Blobs : WriteRefused(b)
  <2>1. UNCHANGED <<medium, seen, disk, dirty, store, call, may>>
    BY <1>6 DEF Read, WriteRefused
  <2>2. DatastoreTypes' /\ KeysAreWhole' /\ StoreTells'
    BY <1>2, <2>1 DEF DatastoreTypes, KeysAreWhole, StoreTells
  <2>3. QED
    BY <1>1, <2>2, QuietKeeps
<1>7. QED
  BY <1>3, <1>4, <1>5, <1>6

LEMMA WriteKeeps ==
  ASSUME DatastoreInv, NEW k \in BlobKeys, NEW b \in Blobs, Write(k, b)
  PROVE  DatastoreInv'
<1> USE NamesApart
<1>1. DatastoreTypes /\ KeysAreWhole /\ StoreTells /\ call.at = "none" /\ call = NoCall
  BY DEF Write, DatastoreInv, DatastoreTypes, Midway
<1>2. CASE UNCHANGED <<seen, dirty, call, may>>
  <2>1. DatastoreTypes' /\ KeysAreWhole' /\ StoreTells'
    BY <1>1, <1>2 DEF Write, DatastoreTypes, KeysAreWhole, StoreTells
  <2>2. QED
    BY <1>1, <1>2, <2>1, QuietKeeps
<1>3. CASE /\ call' = [at |-> "opened", key |-> k, blob |-> b, before |-> may[k]]
           /\ seen' = [seen EXCEPT ![TempOf[k]] = Torn]
           /\ dirty' = dirty \cup {TempOf[k]}
           /\ may' = [may EXCEPT ![k] = @ \cup {b}]
  <2>1. may[k] \in SUBSET (Files \ {Torn}) /\ b \in Files \ {Torn}
    BY <1>1 DEF DatastoreTypes
  <2>2. call' \in [at : Midway, key : BlobKeys, blob : Blobs, before : SUBSET (Files \ {Torn})]
    BY <1>3, <2>1 DEF Midway
  <2>3. /\ seen' \in [Names -> Files] /\ dirty' \subseteq Names
        /\ may' \in [BlobKeys -> SUBSET (Files \ {Torn})]
    BY <1>1, <1>3, <2>1 DEF DatastoreTypes
  <2>4. DatastoreTypes' /\ StoreTells'
    BY <1>1, <2>2, <2>3 DEF Write, DatastoreTypes, StoreTells
  <2>5. /\ \A j \in BlobKeys : seen'[j] = seen[j]
        /\ \A j \in BlobKeys : may'[j] = IF j = k THEN may[j] \cup {b} ELSE may[j]
    BY <1>1, <1>3 DEF DatastoreTypes
  <2>6. KeysAreWhole'
    BY <1>1, <1>3, <2>5 DEF Write, KeysAreWhole
  <2>7. WriteIsUnderWay'
    BY <1>1, <1>3, <2>5 DEF Write, WriteIsUnderWay, KeysAreWhole
  <2>8. QED
    BY <2>4, <2>6, <2>7 DEF DatastoreInv
<1>4. QED
  BY <1>2, <1>3 DEF Write

(* The end of a write, told of as done or as failed. *)
LEMMA WriteEndKeeps ==
  ASSUME DatastoreInv, Sync \/ GiveUp
  PROVE  DatastoreInv'
<1>1. /\ DatastoreTypes /\ KeysAreWhole /\ StoreTells /\ call' = NoCall
      /\ call.key \in BlobKeys /\ call.blob \in Blobs /\ Temp \in Names \ BlobKeys
      /\ call.before \in SUBSET (Files \ {Torn})
  BY WriteIsOfAKey DEF Sync, GiveUp, DatastoreInv
<1>2. StoreTells'
  BY <1>1 DEF Sync, GiveUp, StoreTells
<1>3. CASE Sync
  <2>1. seen[call.key] = call.blob /\ call.blob \in may[call.key] /\ call.blob \in Files \ {Torn}
    BY <1>1, <1>3, NamesApart DEF Sync, DatastoreInv, WriteIsUnderWay
  <2>2. DatastoreTypes'
    BY <1>1, <1>3, <2>1 DEF Sync, DatastoreTypes
  <2>3. \A j \in BlobKeys : may'[j] = may[j] \/ (disk' = seen /\ j = call.key /\ may'[j] = {call.blob})
    BY <1>1, <1>3 DEF Sync, DatastoreTypes
  <2>4. KeysAreWhole'
    BY <1>1, <1>3, <2>1, <2>3 DEF Sync, KeysAreWhole
  <2>5. QED
    BY <1>1, <1>2, <2>2, <2>4, QuietKeeps
<1>4. CASE GiveUp
  <2>1. seen[call.key] \in call.before /\ disk[call.key] \in call.before
    BY <1>4 DEF GiveUp, DatastoreInv, WriteIsUnderWay
  <2>2. DatastoreTypes'
    BY <1>1, <1>4, NamesApart DEF GiveUp, DatastoreTypes
  <2>3. /\ \A j \in BlobKeys : seen'[j] = seen[j]
        /\ \A j \in BlobKeys : may'[j] = IF j = call.key THEN call.before ELSE may[j]
    BY <1>1, <1>4, NamesApart DEF GiveUp, DatastoreTypes
  <2>4. KeysAreWhole'
    BY <1>1, <1>4, <2>1, <2>3 DEF GiveUp, KeysAreWhole
  <2>5. QED
    BY <1>1, <1>2, <2>2, <2>4, QuietKeeps
<1>5. QED
  BY <1>3, <1>4

(* Of a key both directories have a content it may have, so whichever of the  *)
(* two a power cut leaves of each file is one.                               *)
LEMMA EndKeeps ==
  ASSUME DatastoreInv, Kill \/ PowerLost
  PROVE  DatastoreInv'
<1>1. /\ DatastoreTypes /\ KeysAreWhole /\ call' = NoCall
      /\ store' = [open |-> FALSE, persistent |-> FALSE] /\ medium' = medium
  BY DEF Kill, PowerLost, Ended, DatastoreInv
<1>2. StoreTells'
  BY <1>1 DEF StoreTells
<1>3. CASE Kill
  <2>1. DatastoreTypes' /\ KeysAreWhole'
    BY <1>1, <1>3 DEF Kill, DatastoreTypes, KeysAreWhole
  <2>2. QED
    BY <1>1, <1>2, <2>1, QuietKeeps
<1>4. CASE PowerLost /\ medium.volatile
  <2>1. /\ seen' = Empty /\ disk' = Empty /\ dirty' = {}
        /\ may' = [k \in BlobKeys |-> {Absent}]
    BY <1>4 DEF PowerLost
  <2>2. DatastoreTypes' /\ KeysAreWhole'
    BY <1>1, <2>1, NamesApart DEF DatastoreTypes, KeysAreWhole, Empty
  <2>3. QED
    BY <1>1, <1>2, <2>2, QuietKeeps
<1>5. CASE PowerLost /\ ~medium.volatile
  <2>1. PICK there \in SUBSET Names, torn \in SUBSET dirty :
          seen' = [n \in Names |-> IF n \notin there THEN disk[n]
                                   ELSE IF n \in torn THEN Torn ELSE seen[n]]
    BY <1>5 DEF PowerLost
  <2>2. disk' = seen' /\ dirty' = {} /\ may' = [k \in BlobKeys |-> may[k]]
    BY <1>5 DEF PowerLost
  <2>3. seen' \in [Names -> Files]
    BY <1>1, <2>1, NamesApart DEF DatastoreTypes
  <2>4. may' = may
    BY <1>1, <2>2 DEF DatastoreTypes
  <2>5. \A k \in BlobKeys : seen'[k] \in {disk[k], seen[k]}
    BY <1>1, <2>1, NamesApart DEF KeysAreWhole
  <2>6. DatastoreTypes' /\ KeysAreWhole'
    BY <1>1, <2>2, <2>3, <2>4, <2>5 DEF DatastoreTypes, KeysAreWhole
  <2>7. QED
    BY <1>1, <1>2, <2>6, QuietKeeps
<1>6. QED
  BY <1>3, <1>4, <1>5

LEMMA DatastoreStep ==
  ASSUME DatastoreInv, [DatastoreNext]_datastoreVars
  PROVE  DatastoreInv'
<1>1. CASE UNCHANGED datastoreVars
  BY <1>1 DEF datastoreVars, DatastoreInv, DatastoreTypes, KeysAreWhole, StoreTells,
              WriteIsUnderWay, Temp
<1>2. CASE WriteBlob
  <2>1. call.at = "opened" /\ Temp \in Names \ BlobKeys /\ call.blob \in Files
    BY <1>2, WriteIsOfAKey, NamesApart DEF WriteBlob
  <2>2. /\ seen' \in [Names -> Files] /\ dirty' \subseteq dirty
        /\ \A k \in BlobKeys : seen'[k] = seen[k]
    BY <1>2, <2>1, NamesApart DEF WriteBlob, DatastoreInv, DatastoreTypes
  <2>3. CASE seen' = [seen EXCEPT ![Temp] = call.blob] /\ Step("filled")
    <3>1. seen'[Temp] = call.blob
      BY <2>1, <2>3 DEF DatastoreInv, DatastoreTypes
    <3>2. QED
      BY <1>2, <2>1, <2>2, <2>3, <3>1, StepKeeps DEF WriteBlob, Midway
  <2>4. CASE Step("failing")
    BY <1>2, <2>1, <2>2, <2>4, StepKeeps DEF WriteBlob, Midway
  <2>5. QED
    BY <1>2, <2>3, <2>4 DEF WriteBlob
<1>3. CASE Fsync
  <2>1. call.at = "filled" /\ seen' = seen /\ seen \in [Names -> Files] /\ dirty' \subseteq dirty
    BY <1>3 DEF Fsync, DatastoreInv, DatastoreTypes
  <2>2. seen[Temp] = call.blob
    BY <2>1 DEF DatastoreInv, WriteIsUnderWay
  <2>3. CASE dirty' = dirty \ {Temp} /\ Step("flushed")
    BY <1>3, <2>1, <2>2, <2>3, StepKeeps DEF Fsync, Midway
  <2>4. CASE Step("failing")
    BY <1>3, <2>1, <2>2, <2>4, StepKeeps DEF Fsync, Midway
  <2>5. QED
    BY <1>3, <2>3, <2>4 DEF Fsync
<1>4. QED
  BY <1>1, <1>2, <1>3, RenameKeeps, CallsKeep, WriteKeeps, WriteEndKeeps, EndKeeps
     DEF DatastoreNext

(* Whatever the names, the contents and their bound: through refused and     *)
(* failing writes, ends of the process and cuts of the power at any system    *)
(* call, a key reads as the last content a write told of, or one that was     *)
(* being written, whole, and the store says whether its medium persists.      *)
THEOREM BlobsAlwaysSurvive == DatastoreSpec => []BlobsSurvive
<1>1. DatastoreInv => BlobsSurvive
  BY DEF DatastoreInv, DatastoreTypes, KeysAreWhole, StoreTells, BlobsSurvive
<1>2. DatastoreInv /\ [DatastoreNext]_datastoreVars => DatastoreInv'
  BY DatastoreStep
<1>3. QED
  BY <1>1, <1>2, DatastoreStart, PTL DEF DatastoreSpec
-----------------------------------------------------------------------------
(* The button.                                                               *)

Kinds == {"none", "single", "double", "long", "extra", "stuck"}
Slots == 0 .. Ring - 1
Rtc == [events : [Slots -> [kind : Kinds, id : Nat]], write : Slots, read : Slots,
        count : Nat, press : Nat, click : Nat]

ButtonTypes ==
  /\ low \in BOOLEAN /\ edge \in BOOLEAN /\ muddled \in BOOLEAN
  /\ now \in Nat \ {0} /\ taken \in Nat
  /\ rtc \in Rtc
  /\ poll \in {"idle", "due", "filled", "stored", "copied"}
  /\ tally \in [heard : Nat, single : Nat, double : Nat, swallowed : Nat]

(* No event has an id that is not given out, and a press began in the past.  *)
IdsAreGiven(s) == \A i \in Slots : s.events[i].id <= s.count

Given == IdsAreGiven(rtc) /\ taken <= rtc.count /\ rtc.press <= now

(* The events unread of s, from the one whose id is last.                    *)
Ordered(s, last) ==
  \A k \in 1 .. Unread(s) : s.events[(s.write - k) % Ring].id = last - k + 1

(* A click that waits was made since the start; a call that decided it is due *)
(* keeps it to its end, but counts it as told once the index has moved.      *)
Accounted ==
  /\ rtc.click <= now
  /\ poll \in {"due", "filled"} => rtc.click > 0
  /\ tally.heard = tally.single + 2 * tally.double + tally.swallowed
                   + (IF rtc.click > 0 /\ poll # "stored" THEN 1 ELSE 0)

(* The last event the index has moved past.                                  *)
Last == IF poll = "filled" THEN rtc.count - 1 ELSE rtc.count

(* While a call is between the slot and the index, the event is written and   *)
(* not there yet, or fetched and still there.                                *)
InOrder ==
  /\ Ordered(rtc, Last)
  /\ poll = "filled" => rtc.events[rtc.write].id = rtc.count
  /\ poll = "copied" => Unread(rtc) > 0 /\ taken = Last - Unread(rtc) + 1
  /\ poll # "copied" => taken <= Last - Unread(rtc)

ButtonInv ==
  ButtonTypes /\ Given /\ WakesOnTheNextChange /\ (muddled \/ (Accounted /\ InOrder))

(* The kinds of the events of s with an id past the given one.               *)
KindsPast(s, count) == {s.events[i].kind : i \in {j \in Slots : s.events[j].id > count}}

(* Indices in the ring: the next one, and the one some events back. *)
LEMMA NextIndex ==
  ASSUME NEW a \in Slots
  PROVE  /\ (a + 1) % Ring = IF a + 1 = Ring THEN 0 ELSE a + 1
         /\ (a + 1) % Ring \in Slots
<1>1. CASE a + 1 = Ring
  <2>1. Ring % Ring = 0
    BY ButtonAssumption
  <2>2. QED
    BY <1>1, <2>1, ButtonAssumption DEF Slots
<1>2. CASE a + 1 # Ring
  <2>1. a + 1 \in 0 .. Ring - 1
    BY <1>2, ButtonAssumption DEF Slots
  <2>2. (a + 1) % Ring = a + 1
    BY <2>1, ButtonAssumption
  <2>3. QED
    BY <1>2, <2>1, <2>2 DEF Slots
<1>3. QED
  BY <1>1, <1>2

LEMMA IndexBack ==
  ASSUME NEW a \in Slots, NEW b \in Slots
  PROVE  /\ (a - b) % Ring = IF a >= b THEN a - b ELSE a - b + Ring
         /\ (a - b) % Ring \in Slots
<1>1. CASE a >= b
  <2>1. a - b \in 0 .. Ring - 1
    BY <1>1, ButtonAssumption DEF Slots
  <2>2. (a - b) % Ring = a - b
    BY <2>1, ButtonAssumption
  <2>3. QED
    BY <1>1, <2>1, <2>2 DEF Slots
<1>2. CASE a < b
  <2>1. a - b + Ring \in 0 .. Ring - 1 /\ a - b \in Int
    BY <1>2, ButtonAssumption DEF Slots
  <2>2. (a - b) % Ring = a - b + Ring
    BY <2>1, ButtonAssumption
  <2>3. QED
    BY <1>2, <2>1, <2>2, ButtonAssumption DEF Slots
<1>3. QED
  BY <1>1, <1>2, ButtonAssumption DEF Slots

(* What the ring of an s is made of. *)
LEMMA RtcParts ==
  ASSUME NEW s \in Rtc
  PROVE  /\ s.events \in [Slots -> [kind : Kinds, id : Nat]]
         /\ s.write \in Slots /\ s.read \in Slots
         /\ s.count \in Nat /\ s.press \in Nat /\ s.click \in Nat
         /\ \A i \in Slots : s.events[i].id \in Nat /\ s.events[i].kind \in Kinds
         /\ Unread(s) \in Slots
         /\ Unread(s) = IF s.write >= s.read THEN s.write - s.read ELSE s.write - s.read + Ring
BY IndexBack DEF Rtc, Unread

(* An event written to the slot the index is at, which no unread one is in. *)
LEMMA FilledKeeps ==
  ASSUME NEW s \in Rtc, NEW kind \in Kinds, IdsAreGiven(s)
  PROVE  /\ Filled(s, kind) \in Rtc /\ IdsAreGiven(Filled(s, kind))
         /\ Filled(s, kind).count = s.count + 1
         /\ Filled(s, kind).write = s.write /\ Filled(s, kind).read = s.read
         /\ Filled(s, kind).press = s.press /\ Filled(s, kind).click = s.click
         /\ \A i \in Slots : Filled(s, kind).events[i] =
                               IF i = s.write THEN [kind |-> kind, id |-> s.count + 1]
                               ELSE s.events[i]
         /\ Ordered(s, s.count) => Ordered(Filled(s, kind), s.count)
<1> DEFINE f == Filled(s, kind)
           e == [kind |-> kind, id |-> s.count + 1]
<1>1. e \in [kind : Kinds, id : Nat] /\ e.id = s.count + 1
  BY RtcParts
<1>2. f = [s EXCEPT !.events = [s.events EXCEPT ![s.write] = e], !.count = s.count + 1]
  BY DEF Filled, Rtc
<1> HIDE DEF f
<1>3. /\ f.count = s.count + 1 /\ f.write = s.write /\ f.read = s.read
      /\ f.press = s.press /\ f.click = s.click
      /\ f.events = [s.events EXCEPT ![s.write] = e]
  BY <1>2 DEF Rtc
<1>4. \A i \in Slots : f.events[i] = IF i = s.write THEN e ELSE s.events[i]
  BY <1>3, RtcParts
<1>5. f.events \in [Slots -> [kind : Kinds, id : Nat]]
  BY <1>1, <1>3, RtcParts
<1>6. f \in Rtc
  BY <1>2, <1>5, RtcParts DEF Rtc
<1>7. IdsAreGiven(f)
  <2> SUFFICES ASSUME NEW i \in Slots PROVE f.events[i].id <= f.count
    BY DEF IdsAreGiven
  <2>1. s.events[i].id <= s.count /\ s.events[i].id \in Nat /\ s.count \in Nat
    BY RtcParts DEF IdsAreGiven
  <2>2. QED
    BY <1>1, <1>3, <1>4, <2>1
<1>8. ASSUME Ordered(s, s.count) PROVE Ordered(f, s.count)
  <2>1. Unread(f) = Unread(s)
    BY <1>3 DEF Unread
  <2> SUFFICES ASSUME NEW k \in 1 .. Unread(s)
               PROVE  f.events[(s.write - k) % Ring].id = s.count - k + 1
    BY <1>3, <2>1 DEF Ordered
  <2>2. k \in Slots /\ k # 0 /\ s.write \in Slots
    BY RtcParts, ButtonAssumption DEF Slots
  <2>3. (s.write - k) % Ring \in Slots /\ (s.write - k) % Ring # s.write
    <3>1. /\ (s.write - k) % Ring = IF s.write >= k THEN s.write - k ELSE s.write - k + Ring
          /\ (s.write - k) % Ring \in Slots
      BY <2>2, IndexBack
    <3>2. QED
      BY <2>2, <3>1, ButtonAssumption DEF Slots
  <2>4. QED
    BY <1>4, <1>8, <2>3 DEF Ordered
<1>9. QED
  BY <1>3, <1>4, <1>6, <1>7, <1>8 DEF f

(* The index moves past it, and past the oldest one when the ring is full. *)
LEMMA SteppedKeeps ==
  ASSUME NEW f \in Rtc, IdsAreGiven(f)
  PROVE  /\ Stepped(f) \in Rtc /\ IdsAreGiven(Stepped(f))
         /\ Stepped(f).events = f.events /\ Stepped(f).count = f.count
         /\ Stepped(f).press = f.press /\ Stepped(f).click = f.click
         /\ Unread(Stepped(f)) <= Unread(f) + 1
         /\ Ordered(f, f.count - 1) /\ f.events[f.write].id = f.count =>
              Ordered(Stepped(f), f.count)
<1> DEFINE g == Stepped(f)
           w == (f.write + 1) % Ring
<1>1. /\ w \in Slots /\ w = IF f.write + 1 = Ring THEN 0 ELSE f.write + 1
  BY NextIndex, RtcParts
<1>2. /\ (f.read + 1) % Ring \in Slots
      /\ (f.read + 1) % Ring = IF f.read + 1 = Ring THEN 0 ELSE f.read + 1
  BY NextIndex, RtcParts
<1>3. g = [f EXCEPT !.write = w, !.read = IF w = f.read THEN (f.read + 1) % Ring ELSE f.read]
  BY DEF Stepped, Rtc
<1> HIDE DEF g, w
<1>4. /\ g.events = f.events /\ g.count = f.count /\ g.press = f.press /\ g.click = f.click
      /\ g.write = w /\ g.read = IF w = f.read THEN (f.read + 1) % Ring ELSE f.read
  BY <1>3 DEF Rtc
<1>5. g \in Rtc
  BY <1>1, <1>2, <1>3, RtcParts DEF Rtc
<1>6. Unread(g) \in Slots /\ Unread(g) <= Unread(f) + 1
  <2>1. /\ Unread(g) = IF g.write >= g.read THEN g.write - g.read ELSE g.write - g.read + Ring
        /\ Unread(f) = IF f.write >= f.read THEN f.write - f.read ELSE f.write - f.read + Ring
        /\ Unread(g) \in Slots /\ f.write \in Slots /\ f.read \in Slots
    BY <1>5, RtcParts
  <2>2. QED
    BY <1>1, <1>2, <1>4, <2>1, ButtonAssumption DEF Slots
<1>7. IdsAreGiven(g)
  BY <1>4 DEF IdsAreGiven
<1>8. ASSUME Ordered(f, f.count - 1), f.events[f.write].id = f.count
      PROVE  Ordered(g, f.count)
  <2> SUFFICES ASSUME NEW k \in 1 .. Unread(g)
               PROVE  f.events[(w - k) % Ring].id = f.count - k + 1
    BY <1>4 DEF Ordered
  <2>1. /\ k \in Slots /\ k - 1 \in Slots /\ k - 1 <= Unread(f)
        /\ f.write \in Slots /\ Unread(f) \in Slots /\ f.count \in Nat
    BY <1>6, RtcParts, ButtonAssumption DEF Slots
  <2>2. (w - k) % Ring = (f.write - (k - 1)) % Ring
    <3>1. (w - k) % Ring = IF w >= k THEN w - k ELSE w - k + Ring
      BY <1>1, <2>1, IndexBack
    <3>2. (f.write - (k - 1)) % Ring =
            IF f.write >= k - 1 THEN f.write - (k - 1) ELSE f.write - (k - 1) + Ring
      BY <2>1, IndexBack
    <3>3. QED
      BY <1>1, <2>1, <3>1, <3>2, ButtonAssumption DEF Slots
  <2>3. CASE k = 1
    <3>1. (f.write - (k - 1)) % Ring = f.write
      <4>1. 0 \in Slots /\ k - 1 = 0 /\ f.write >= 0 /\ f.write - 0 = f.write
        BY <2>1, <2>3, ButtonAssumption DEF Slots
      <4>2. (f.write - 0) % Ring = f.write
        BY <2>1, <4>1, IndexBack
      <4>3. QED
        BY <4>1, <4>2
    <3>2. QED
      BY <1>8, <2>1, <2>2, <2>3, <3>1
  <2>4. CASE k > 1
    <3>1. k - 1 \in 1 .. Unread(f)
      BY <2>1, <2>4 DEF Slots
    <3>2. f.events[(f.write - (k - 1)) % Ring].id = (f.count - 1) - (k - 1) + 1
      BY <1>8, <3>1 DEF Ordered
    <3>3. QED
      BY <2>1, <2>2, <3>2 DEF Slots
  <2>5. QED
    BY <2>3, <2>4
<1>9. QED
  BY <1>4, <1>5, <1>6, <1>7, <1>8 DEF g

(* Both: the new event is the latest of the unread, and the others keep their *)
(* order.                                                                    *)
LEMMA StoreKeeps ==
  ASSUME NEW s \in Rtc, NEW kind \in Kinds, IdsAreGiven(s)
  PROVE  LET g == StoreEvent(s, kind)
         IN  /\ g \in Rtc /\ IdsAreGiven(g)
             /\ g.count = s.count + 1 /\ g.press = s.press /\ g.click = s.click
             /\ KindsPast(g, s.count) = {kind}
             /\ Ordered(s, s.count) => Ordered(g, g.count)
             /\ Unread(g) <= Unread(s) + 1
<1> DEFINE f == Filled(s, kind)
           g == Stepped(f)
<1>1. /\ f \in Rtc /\ IdsAreGiven(f) /\ f.count = s.count + 1
      /\ f.write = s.write /\ f.read = s.read /\ f.press = s.press /\ f.click = s.click
      /\ \A i \in Slots : f.events[i] = IF i = s.write THEN [kind |-> kind, id |-> s.count + 1]
                                        ELSE s.events[i]
      /\ Ordered(s, s.count) => Ordered(f, s.count)
  BY FilledKeeps
<1> HIDE DEF f
<1>2. /\ s.write \in Slots /\ s.count \in Nat /\ f.count - 1 = s.count
      /\ f.events[f.write].id = f.count
  BY <1>1, RtcParts
<1>3. /\ g \in Rtc /\ IdsAreGiven(g) /\ g.events = f.events /\ g.count = f.count
      /\ g.press = f.press /\ g.click = f.click
      /\ Unread(g) <= Unread(f) + 1
      /\ Ordered(f, f.count - 1) => Ordered(g, f.count)
  BY <1>1, <1>2, SteppedKeeps
<1> HIDE DEF g
<1>4. \A i \in Slots : f.events[i].id > s.count <=> i = s.write
  <2> SUFFICES ASSUME NEW i \in Slots PROVE f.events[i].id > s.count <=> i = s.write
    OBVIOUS
  <2>1. s.events[i].id <= s.count /\ s.events[i].id \in Nat
    BY RtcParts DEF IdsAreGiven
  <2>2. QED
    BY <1>1, <1>2, <2>1
<1>5. {j \in Slots : g.events[j].id > s.count} = {s.write}
  BY <1>2, <1>3, <1>4
<1>6. g.events[s.write].kind = kind
  BY <1>1, <1>2, <1>3
<1>7. KindsPast(g, s.count) = {kind}
  BY <1>5, <1>6 DEF KindsPast
<1>8. Unread(f) = Unread(s)
  BY <1>1 DEF Unread
<1>9. StoreEvent(s, kind) = g
  BY DEF StoreEvent, f, g
<1>10. QED
  BY <1>1, <1>2, <1>3, <1>7, <1>8, <1>9

(* The chip starts with an empty ring. *)
LEMMA ButtonStart == ButtonInit => ButtonInv
<1> SUFFICES ASSUME ButtonInit PROVE ButtonInv
  OBVIOUS
<1>1. 0 \in Slots
  BY ButtonAssumption DEF Slots
<1>2. None \in [kind : Kinds, id : Nat] /\ None.id = 0
  BY DEF None, Kinds
<1>3. rtc \in Rtc /\ rtc.events = [i \in Slots |-> None] /\ rtc.write = 0 /\ rtc.read = 0
      /\ rtc.count = 0 /\ rtc.press = 0 /\ rtc.click = 0
  BY <1>1, <1>2 DEF ButtonInit, Rtc, Slots
<1>4. Unread(rtc) = 0
  BY <1>1, <1>3, IndexBack DEF Unread
<1>5. ButtonTypes
  <2>1. tally \in [heard : Nat, single : Nat, double : Nat, swallowed : Nat]
    BY DEF ButtonInit, NoPresses
  <2>2. now = 1 /\ 1 \in Nat \ {0} /\ taken = 0 /\ poll = "idle"
        /\ low = FALSE /\ edge = FALSE /\ muddled = FALSE
    BY DEF ButtonInit
  <2>3. QED
    BY <1>3, <2>1, <2>2 DEF ButtonTypes
<1>6. Given /\ WakesOnTheNextChange
  <2>1. now = 1 /\ taken = 0 /\ low = FALSE
    BY DEF ButtonInit
  <2>2. IdsAreGiven(rtc)
    BY <1>2, <1>3 DEF IdsAreGiven
  <2>3. QED
    BY <1>3, <2>1, <2>2 DEF Given, WakesOnTheNextChange, WakeLevel
<1>7. Accounted
  BY <1>3 DEF ButtonInit, Accounted, NoPresses
<1>8. InOrder
  BY <1>3, <1>4 DEF ButtonInit, InOrder, Ordered, Last
<1>9. QED
  BY <1>5, <1>6, <1>7, <1>8 DEF ButtonInv

(* The times of a press and a click are no part of the ring. *)
LEMMA RingOfSame ==
  ASSUME NEW s, NEW g, NEW last,
         g.events = s.events, g.write = s.write, g.read = s.read, g.count = s.count
  PROVE  /\ Unread(g) = Unread(s)
         /\ IdsAreGiven(g) <=> IdsAreGiven(s)
         /\ Ordered(g, last) <=> Ordered(s, last)
BY DEF Unread, IdsAreGiven, Ordered

LEMMA PressSet ==
  ASSUME NEW s \in Rtc, NEW n \in Nat, NEW g, g = [s EXCEPT !.press = n]
  PROVE  /\ g \in Rtc /\ g.events = s.events /\ g.write = s.write /\ g.read = s.read
         /\ g.count = s.count /\ g.press = n /\ g.click = s.click
BY DEF Rtc

LEMMA ClickSet ==
  ASSUME NEW s \in Rtc, NEW n \in Nat, NEW g, g = [s EXCEPT !.click = n]
  PROVE  /\ g \in Rtc /\ g.events = s.events /\ g.write = s.write /\ g.read = s.read
         /\ g.count = s.count /\ g.press = s.press /\ g.click = n
BY DEF Rtc

(* A step that touches the ring at most in the time of the press. *)
LEMMA PressKeeps ==
  ASSUME ButtonInv, ButtonTypes', WakesOnTheNextChange',
         NEW n \in Nat, rtc' = [rtc EXCEPT !.press = n], n <= now',
         now' >= now, poll' = poll, taken' = taken,
         ~muddled' => ~muddled /\ tally' = tally
  PROVE  ButtonInv'
<1>1. rtc \in Rtc /\ now \in Nat /\ now' \in Nat
  BY DEF ButtonInv, ButtonTypes
<1>2. /\ rtc'.events = rtc.events /\ rtc'.write = rtc.write /\ rtc'.read = rtc.read
      /\ rtc'.count = rtc.count /\ rtc'.press = n /\ rtc'.click = rtc.click
  BY <1>1, PressSet
<1>3. /\ Unread(rtc') = Unread(rtc)
      /\ IdsAreGiven(rtc') <=> IdsAreGiven(rtc)
      /\ Ordered(rtc', Last) <=> Ordered(rtc, Last)
  BY <1>2, RingOfSame
<1>4. Given'
  BY <1>2, <1>3 DEF ButtonInv, Given
<1>5. ASSUME ~muddled' PROVE Accounted' /\ InOrder'
  <2>1. Accounted /\ InOrder /\ tally' = tally
    BY <1>5 DEF ButtonInv
  <2>2. Accounted'
    BY <1>1, <1>2, <2>1, RtcParts DEF Accounted
  <2>3. InOrder'
    <3>1. Last' = Last
      BY <1>2 DEF Last
    <3>2. Ordered(rtc', Last')
      BY <1>3, <2>1, <3>1 DEF InOrder
    <3>3. QED
      BY <1>2, <1>3, <2>1, <3>1, <3>2 DEF InOrder
  <2>4. QED
    BY <2>2, <2>3
<1>6. QED
  BY <1>4, <1>5 DEF ButtonInv

(* What becomes of a release that lasted.  A click that waits is not taken for *)
(* due then: the time of the press is still set.                             *)
LEMMA ReleaseIsClassified ==
  ASSUME rtc \in Rtc, now \in Nat, rtc.press > 0, NEW held \in Int
  PROVE  \/ /\ held > Long
            /\ \E kind \in {"long", "extra", "stuck"} :
                 Classified(rtc, held) = [StoreEvent(rtc, kind) EXCEPT !.click = 0]
         \/ /\ held <= Long
            /\ \E s \in {rtc, [rtc EXCEPT !.click = 0]} :
                 /\ rtc.click <= now => s = rtc
                 /\ \/ /\ s.click > 0 /\ now - s.click < Double
                       /\ Classified(rtc, held) = [StoreEvent(s, "double") EXCEPT !.click = 0]
                    \/ /\ ~(s.click > 0 /\ now - s.click < Double)
                       /\ Classified(rtc, held) = [s EXCEPT !.click = now]
<1> DEFINE s == ResolvePendingSingle(rtc)
<1>1. rtc.click \in Nat /\ rtc.press \in Nat
  BY RtcParts
<1>2. ~Due(rtc)
  BY <1>1 DEF Due
<1>3. s \in {rtc, [rtc EXCEPT !.click = 0]} /\ (rtc.click <= now => s = rtc)
  BY <1>1, <1>2 DEF ResolvePendingSingle
<1>4. Long \in Nat
  BY ButtonAssumption
<1>5. CASE held > Long
  <2>1. ~(held <= Long)
    BY <1>4, <1>5
  <2>2. Classified(rtc, held) =
          [StoreEvent(rtc, IF held > StuckAfter THEN "stuck"
                           ELSE IF held > Extra THEN "extra" ELSE "long") EXCEPT !.click = 0]
    BY <1>5, <2>1 DEF Classified
  <2>3. QED
    BY <1>5, <2>2
<1>6. CASE held <= Long
  <2>1. ~(held > Long)
    BY <1>4, <1>6
  <2>2. CASE s.click > 0 /\ now - s.click < Double
    <3>1. Classified(rtc, held) = [StoreEvent(s, "double") EXCEPT !.click = 0]
      BY <1>6, <2>1, <2>2 DEF Classified
    <3>2. QED
      BY <1>3, <1>6, <2>2, <3>1
  <2>3. CASE ~(s.click > 0 /\ now - s.click < Double)
    <3>1. Classified(rtc, held) = [s EXCEPT !.click = now]
      BY <1>6, <2>1, <2>3 DEF Classified
    <3>2. QED
      BY <1>3, <1>6, <2>3, <3>1
  <2>4. QED
    BY <2>2, <2>3
<1>7. QED
  BY <1>4, <1>5, <1>6

(* An event stored at a release, or only a click, and what is counted of it. *)
LEMMA StoredAtRelease ==
  ASSUME NEW s \in Rtc, NEW kind \in Kinds, IdsAreGiven(s), NEW g,
         g = [[StoreEvent(s, kind) EXCEPT !.click = 0] EXCEPT !.press = 0]
  PROVE  /\ g \in Rtc /\ IdsAreGiven(g)
         /\ g.count = s.count + 1 /\ g.press = 0 /\ g.click = 0
         /\ KindsPast(g, s.count) = {kind}
         /\ Ordered(s, s.count) => Ordered(g, g.count)
         /\ Unread(g) <= Unread(s) + 1
<1> DEFINE e == StoreEvent(s, kind)
           f == [e EXCEPT !.click = 0]
<1>1. /\ e \in Rtc /\ IdsAreGiven(e) /\ e.count = s.count + 1
      /\ KindsPast(e, s.count) = {kind}
      /\ Ordered(s, s.count) => Ordered(e, e.count)
      /\ Unread(e) <= Unread(s) + 1
  BY StoreKeeps
<1> HIDE DEF e
<1>2. f \in Rtc /\ f.events = e.events /\ f.write = e.write /\ f.read = e.read
      /\ f.count = e.count /\ f.click = 0
  BY <1>1 DEF Rtc
<1> HIDE DEF f
<1>3. g = [f EXCEPT !.press = 0]
  BY DEF f, e
<1>4. g \in Rtc /\ g.events = e.events /\ g.write = e.write /\ g.read = e.read
      /\ g.count = e.count /\ g.click = 0 /\ g.press = 0
  BY <1>2, <1>3 DEF Rtc
<1>5. Unread(g) = Unread(e) /\ (IdsAreGiven(g) <=> IdsAreGiven(e))
      /\ (Ordered(g, e.count) <=> Ordered(e, e.count))
  BY <1>4, RingOfSame
<1>6. KindsPast(g, s.count) = KindsPast(e, s.count)
  BY <1>4 DEF KindsPast
<1>7. QED
  BY <1>1, <1>4, <1>5, <1>6

LEMMA ClickedAtRelease ==
  ASSUME NEW s \in {rtc, [rtc EXCEPT !.click = 0]}, rtc \in Rtc, now \in Nat, IdsAreGiven(rtc),
         NEW g, g = [[s EXCEPT !.click = now] EXCEPT !.press = 0]
  PROVE  /\ g \in Rtc /\ IdsAreGiven(g)
         /\ g.count = rtc.count /\ g.press = 0 /\ g.click = now
         /\ KindsPast(g, rtc.count) = {}
         /\ Ordered(rtc, rtc.count) <=> Ordered(g, g.count)
         /\ Unread(g) = Unread(rtc)
<1> DEFINE f == [s EXCEPT !.click = now]
<1>1. s \in Rtc /\ s.events = rtc.events /\ s.write = rtc.write /\ s.read = rtc.read
      /\ s.count = rtc.count
  BY ClickSet
<1>2. f \in Rtc /\ f.events = rtc.events /\ f.write = rtc.write /\ f.read = rtc.read
      /\ f.count = rtc.count /\ f.click = now
  BY <1>1, ClickSet
<1> HIDE DEF f
<1>3. g = [f EXCEPT !.press = 0]
  BY DEF f
<1>4. g \in Rtc /\ g.events = rtc.events /\ g.write = rtc.write /\ g.read = rtc.read
      /\ g.count = rtc.count /\ g.click = now /\ g.press = 0
  BY <1>2, <1>3 DEF Rtc
<1>5. Unread(g) = Unread(rtc) /\ (IdsAreGiven(g) <=> IdsAreGiven(rtc))
      /\ (Ordered(g, rtc.count) <=> Ordered(rtc, rtc.count))
  BY <1>4, RingOfSame
<1>6. {j \in Slots : g.events[j].id > rtc.count} = {}
  BY <1>4, RtcParts DEF IdsAreGiven
<1>7. KindsPast(g, rtc.count) = {}
  BY <1>6 DEF KindsPast
<1>8. QED
  BY <1>4, <1>5, <1>7

(* The interrupt.  While a call of the loop is under way and the histories     *)
(* still count, it only sets the time of the press.                          *)
LEMMA InterruptKeeps ==
  ASSUME ButtonInv, Interrupt
  PROVE  ButtonInv'
<1> DEFINE held == now - rtc.press
<1>1. /\ rtc \in Rtc /\ now \in Nat /\ now > 0 /\ low \in BOOLEAN /\ taken \in Nat
      /\ muddled \in BOOLEAN /\ IdsAreGiven(rtc) /\ taken <= rtc.count /\ rtc.press <= now
      /\ tally \in [heard : Nat, single : Nat, double : Nat, swallowed : Nat]
      /\ poll \in {"idle", "due", "filled", "stored", "copied"}
  BY DEF ButtonInv, ButtonTypes, Given
<1>2. /\ rtc.press \in Nat /\ rtc.click \in Nat /\ rtc.count \in Nat
      /\ held \in Nat
      /\ Debounce \in Nat \ {0} /\ Debounce <= Long /\ Long \in Nat /\ Double \in Nat \ {0}
  BY <1>1, RtcParts, ButtonAssumption
<1>3. /\ edge' = FALSE /\ UNCHANGED <<low, now, poll, taken>>
      /\ rtc' = Handled(rtc)
      /\ muddled' = (muddled \/ (poll # "idle"
                       /\ (rtc'.count # rtc.count \/ rtc'.click # rtc.click)))
      /\ tally' = IF muddled' THEN NoPresses ELSE Counted(rtc, rtc')
  BY DEF Interrupt
<1>4. /\ muddled' \in BOOLEAN
      /\ ~muddled' => /\ ~muddled
                      /\ poll = "idle" \/ (rtc'.count = rtc.count /\ rtc'.click = rtc.click)
  BY <1>3
<1>5. NoPresses \in [heard : Nat, single : Nat, double : Nat, swallowed : Nat]
  BY DEF NoPresses
<1>6. tally' = NoPresses \/ tally' = Counted(rtc, rtc')
  BY <1>3
<1>7. /\ low' \in BOOLEAN /\ edge' \in BOOLEAN /\ now' \in Nat \ {0} /\ taken' \in Nat
       /\ poll' \in {"idle", "due", "filled", "stored", "copied"}
  <2>1. edge' = FALSE /\ UNCHANGED <<low, now, poll, taken>>
    BY DEF Interrupt
  <2>2. low' \in BOOLEAN /\ edge' \in BOOLEAN
    BY <1>1, <2>1, Zenon
  <2>3. /\ now' \in Nat \ {0} /\ taken' \in Nat
        /\ poll' \in {"idle", "due", "filled", "stored", "copied"}
    BY <1>1, <2>1
  <2>4. QED
    BY <2>2, <2>3
<1>8. CASE low \/ rtc.press = 0 \/ held < Debounce
  <2>1. PICK n \in Nat : /\ rtc' = [rtc EXCEPT !.press = n] /\ n <= now
                         /\ low => n > 0
                         /\ ~low => n = 0
    <3>1. CASE low
      BY <1>1, <1>2, <1>3, <3>1 DEF Handled
    <3>2. CASE ~low /\ rtc.press = 0
      <4>1. rtc' = rtc
        BY <1>3, <3>2 DEF Handled
      <4>2. rtc = [rtc EXCEPT !.press = 0]
        BY <1>1, <3>2 DEF Rtc
      <4>3. 0 <= now /\ 0 \in Nat
        BY <1>1
      <4>4. QED
        BY <3>2, <4>1, <4>2, <4>3
    <3>3. CASE ~low /\ rtc.press > 0 /\ held < Debounce
      <4>1. ~(held < 0) /\ held \in 0 .. Debounce - 1 /\ rtc.press # 0
        BY <1>2, <3>3
      <4>2. rtc' = [rtc EXCEPT !.press = 0]
        BY <1>3, <3>3, <4>1 DEF Handled
      <4>3. QED
        BY <1>1, <3>3, <4>2
    <3>4. QED
      BY <1>1, <1>2, <1>8, <3>1, <3>2, <3>3
  <2>2. rtc' \in Rtc /\ rtc'.events = rtc.events /\ rtc'.press = n /\ rtc'.count = rtc.count
    BY <1>1, <2>1, PressSet
  <2>3. Counted(rtc, rtc') = tally
    <3>1. {j \in 0 .. Ring - 1 : rtc'.events[j].id > rtc.count} = {}
      <4>1. rtc.count \in Nat /\ \A j \in Slots : rtc.events[j].id \in Nat
        BY <1>1, RtcParts
      <4>2. \A j \in Slots : ~(rtc.events[j].id > rtc.count)
        BY <1>1, <4>1 DEF IdsAreGiven
      <4>3. QED
        BY <2>2, <4>2 DEF Slots
    <3>2. ~(~low /\ rtc.press > 0 /\ now - rtc.press \in Debounce .. Long)
      BY <1>2, <1>8
    <3>3. ~(~low /\ rtc.press > 0 /\ now - rtc.press > Long)
      BY <1>2, <1>8
    <3>4. Counted(rtc, rtc') = [heard |-> tally.heard + 0, single |-> tally.single + 0,
                                double |-> tally.double + 0, swallowed |-> tally.swallowed + 0]
      BY <3>1, <3>2, <3>3 DEF Counted
    <3>5. QED
      BY <1>1, <3>4
  <2>4. ButtonTypes'
    <3>1. tally' \in [heard : Nat, single : Nat, double : Nat, swallowed : Nat]
      BY <1>1, <1>5, <1>6, <2>3
    <3>2. QED
      BY <1>4, <1>7, <2>2, <3>1 DEF ButtonTypes
  <2>5. WakesOnTheNextChange'
    BY <1>1, <1>3, <2>1, <2>2 DEF WakesOnTheNextChange, WakeLevel
  <2>6. QED
    BY <1>1, <1>3, <1>4, <2>1, <2>3, <2>4, <2>5, PressKeeps
<1>9. CASE ~low /\ rtc.press > 0 /\ held >= Debounce
  <2>1. rtc' = [Classified(rtc, held) EXCEPT !.press = 0]
    <3>1. ~(held < 0) /\ held \notin 0 .. Debounce - 1 /\ rtc.press # 0
      BY <1>2, <1>9
    <3>2. QED
      BY <1>3, <1>9, <3>1 DEF Handled
  <2> DEFINE fresh == KindsPast(rtc', rtc.count)
             short == held <= Long
             late == rtc.click > 0 /\ (~short \/ now - rtc.click >= Double)
  <2>2. Counted(rtc, rtc') =
          [heard |-> tally.heard + (IF short THEN 1 ELSE 0),
           single |-> tally.single + (IF "single" \in fresh THEN 1 ELSE 0),
           double |-> tally.double + (IF "double" \in fresh THEN 1 ELSE 0),
           swallowed |-> tally.swallowed + (IF late THEN 1 ELSE 0)]
    <3>1. (~low /\ rtc.press > 0 /\ now - rtc.press \in Debounce .. Long) <=> short
      BY <1>2, <1>9
    <3>2. (/\ ~low /\ rtc.click > 0 /\ rtc.press > 0
           /\ \/ now - rtc.press > Long
              \/ /\ (~low /\ rtc.press > 0 /\ now - rtc.press \in Debounce .. Long)
                 /\ now - rtc.click >= Double) <=> late
      BY <1>2, <1>9, <3>1
    <3>3. QED
      BY <3>1, <3>2 DEF Counted, Slots, KindsPast
  <2> HIDE DEF fresh
  <2>3. /\ rtc' \in Rtc /\ IdsAreGiven(rtc') /\ rtc'.press = 0 /\ rtc'.count >= rtc.count
        /\ rtc.click <= now =>
             \/ /\ rtc'.count = rtc.count + 1 /\ rtc'.click = 0
                /\ Ordered(rtc, rtc.count) => Ordered(rtc', rtc'.count)
                /\ Unread(rtc') <= Unread(rtc) + 1
                /\ \/ ~short /\ "single" \notin fresh /\ "double" \notin fresh
                   \/ /\ short /\ "single" \notin fresh /\ "double" \in fresh
                      /\ rtc.click > 0 /\ now - rtc.click < Double
             \/ /\ rtc'.count = rtc.count /\ rtc'.click = now
                /\ Ordered(rtc, rtc.count) => Ordered(rtc', rtc'.count)
                /\ Unread(rtc') = Unread(rtc)
                /\ short /\ "single" \notin fresh /\ "double" \notin fresh
                /\ ~(rtc.click > 0 /\ now - rtc.click < Double)
    <3>1. CASE \E kind \in {"long", "extra", "stuck"} :
                 /\ held > Long
                 /\ Classified(rtc, held) = [StoreEvent(rtc, kind) EXCEPT !.click = 0]
      <4>1. PICK kind \in {"long", "extra", "stuck"} :
              /\ held > Long
              /\ rtc' = [[StoreEvent(rtc, kind) EXCEPT !.click = 0] EXCEPT !.press = 0]
        BY <2>1, <3>1
      <4>2. kind \in Kinds
        BY DEF Kinds
      <4>3. /\ rtc' \in Rtc /\ IdsAreGiven(rtc')
            /\ rtc'.count = rtc.count + 1 /\ rtc'.press = 0 /\ rtc'.click = 0
            /\ fresh = {kind}
            /\ Ordered(rtc, rtc.count) => Ordered(rtc', rtc'.count)
            /\ Unread(rtc') <= Unread(rtc) + 1
        BY <1>1, <4>1, <4>2, StoredAtRelease DEF fresh
      <4>4. "single" \notin fresh /\ "double" \notin fresh /\ ~short
        BY <1>2, <4>1, <4>3
      <4>5. QED
        BY <1>2, <4>3, <4>4
    <3>2. CASE \E s \in {rtc, [rtc EXCEPT !.click = 0]} :
                 /\ held <= Long /\ (rtc.click <= now => s = rtc)
                 /\ s.click > 0 /\ now - s.click < Double
                 /\ Classified(rtc, held) = [StoreEvent(s, "double") EXCEPT !.click = 0]
      <4>1. PICK s \in {rtc, [rtc EXCEPT !.click = 0]} :
              /\ held <= Long /\ (rtc.click <= now => s = rtc)
              /\ s.click > 0 /\ now - s.click < Double
              /\ rtc' = [[StoreEvent(s, "double") EXCEPT !.click = 0] EXCEPT !.press = 0]
        BY <2>1, <3>2
      <4>2. "double" \in Kinds
        BY DEF Kinds
      <4>3. s \in Rtc /\ s.events = rtc.events /\ s.write = rtc.write /\ s.read = rtc.read
            /\ s.count = rtc.count
        BY <1>1, ClickSet
      <4>4. IdsAreGiven(s)
        BY <1>1, <4>3, RingOfSame
      <4>5. /\ rtc' \in Rtc /\ IdsAreGiven(rtc')
            /\ rtc'.count = rtc.count + 1 /\ rtc'.press = 0 /\ rtc'.click = 0
            /\ KindsPast(rtc', s.count) = {"double"}
            /\ Ordered(s, s.count) => Ordered(rtc', rtc'.count)
            /\ Unread(rtc') <= Unread(s) + 1
        <5>1. /\ rtc' \in Rtc /\ IdsAreGiven(rtc')
              /\ rtc'.count = s.count + 1 /\ rtc'.press = 0 /\ rtc'.click = 0
              /\ KindsPast(rtc', s.count) = {"double"}
              /\ Ordered(s, s.count) => Ordered(rtc', rtc'.count)
              /\ Unread(rtc') <= Unread(s) + 1
          BY <4>1, <4>2, <4>3, <4>4, StoredAtRelease
        <5>2. QED
          BY <4>3, <5>1
      <4>6. "single" \notin fresh /\ "double" \in fresh /\ short
        BY <4>1, <4>3, <4>5 DEF fresh
      <4>7. QED
        BY <1>2, <4>1, <4>5, <4>6
    <3>3. CASE \E s \in {rtc, [rtc EXCEPT !.click = 0]} :
                 /\ held <= Long /\ (rtc.click <= now => s = rtc)
                 /\ ~(s.click > 0 /\ now - s.click < Double)
                 /\ Classified(rtc, held) = [s EXCEPT !.click = now]
      <4>1. PICK s \in {rtc, [rtc EXCEPT !.click = 0]} :
              /\ held <= Long /\ (rtc.click <= now => s = rtc)
              /\ ~(s.click > 0 /\ now - s.click < Double)
              /\ rtc' = [[s EXCEPT !.click = now] EXCEPT !.press = 0]
        BY <2>1, <3>3
      <4>2. /\ rtc' \in Rtc /\ IdsAreGiven(rtc')
            /\ rtc'.count = rtc.count /\ rtc'.press = 0 /\ rtc'.click = now
            /\ fresh = {}
            /\ Ordered(rtc, rtc.count) <=> Ordered(rtc', rtc'.count)
            /\ Unread(rtc') = Unread(rtc)
        BY <1>1, <4>1, ClickedAtRelease DEF fresh
      <4>3. QED
        BY <1>2, <4>1, <4>2
    <3>4. QED
      BY <1>1, <1>2, <1>9, <3>1, <3>2, <3>3, ReleaseIsClassified
  <2>4. rtc'.count \in Nat /\ rtc'.click \in Nat /\ Unread(rtc) \in Int /\ Unread(rtc') \in Int
    BY <1>1, <2>3, RtcParts, ButtonAssumption DEF Slots
  <2>5. ButtonTypes'
    <3>1. Counted(rtc, rtc') \in [heard : Nat, single : Nat, double : Nat, swallowed : Nat]
      BY <1>1, <2>2
    <3>2. tally' \in [heard : Nat, single : Nat, double : Nat, swallowed : Nat]
      BY <1>5, <1>6, <3>1
    <3>3. QED
      BY <1>4, <1>7, <2>3, <3>2 DEF ButtonTypes
  <2>6. Given' /\ WakesOnTheNextChange'
    BY <1>1, <1>2, <1>3, <1>9, <2>3, <2>4 DEF Given, WakesOnTheNextChange, WakeLevel
  <2>7. ASSUME ~muddled' PROVE Accounted' /\ InOrder'
    <3>1. Accounted /\ InOrder /\ rtc.click <= now
      BY <1>4, <2>7 DEF ButtonInv, Accounted
    <3>2. poll = "idle"
      BY <1>1, <1>2, <1>4, <2>3, <2>7, <3>1
    <3>3. /\ Ordered(rtc, rtc.count) /\ taken <= rtc.count - Unread(rtc)
          /\ tally.heard = tally.single + 2 * tally.double + tally.swallowed
                           + (IF rtc.click > 0 THEN 1 ELSE 0)
      BY <3>1, <3>2 DEF Accounted, InOrder, Last
    <3>4. tally' = Counted(rtc, rtc') /\ poll' = "idle" /\ taken' = taken /\ now' = now
      BY <1>3, <2>7, <3>2
    <3>5. /\ tally'.heard = tally.heard + (IF short THEN 1 ELSE 0)
          /\ tally'.single = tally.single + (IF "single" \in fresh THEN 1 ELSE 0)
          /\ tally'.double = tally.double + (IF "double" \in fresh THEN 1 ELSE 0)
          /\ tally'.swallowed = tally.swallowed + (IF late THEN 1 ELSE 0)
      BY <2>2, <3>4
    <3>6. /\ tally.heard \in Nat /\ tally.single \in Nat
          /\ tally.double \in Nat /\ tally.swallowed \in Nat
      BY <1>1
    <3>7. Accounted'
      <4>1. rtc'.click <= now
        BY <1>1, <2>3, <3>1
      <4>2. tally'.heard = tally'.single + 2 * tally'.double + tally'.swallowed
                           + (IF rtc'.click > 0 THEN 1 ELSE 0)
        BY <1>1, <1>2, <2>3, <2>4, <3>1, <3>3, <3>5, <3>6
      <4>3. QED
        BY <3>4, <4>1, <4>2 DEF Accounted
    <3>8. InOrder'
      <4>1. Ordered(rtc', rtc'.count) /\ taken <= rtc'.count - Unread(rtc')
        BY <1>1, <1>2, <2>3, <2>4, <3>1, <3>3
      <4>2. QED
        BY <3>4, <4>1 DEF InOrder, Last
    <3>9. QED
      BY <3>7, <3>8
  <2>8. QED
    BY <1>4, <2>5, <2>6, <2>7 DEF ButtonInv
<1>10. QED
  BY <1>2, <1>8, <1>9

(* The loop's calls: the parts of a state each of them takes from the invariant. *)
LEMMA CallParts ==
  ASSUME ButtonInv
  PROVE  /\ rtc \in Rtc /\ now \in Nat /\ now > 0 /\ taken \in Nat /\ muddled \in BOOLEAN
         /\ IdsAreGiven(rtc) /\ taken <= rtc.count /\ rtc.press <= now
         /\ rtc.press \in Nat /\ rtc.click \in Nat /\ rtc.count \in Nat /\ Unread(rtc) \in Nat
         /\ tally \in [heard : Nat, single : Nat, double : Nat, swallowed : Nat]
         /\ tally.heard \in Nat /\ tally.single \in Nat
         /\ tally.double \in Nat /\ tally.swallowed \in Nat
<1>1. rtc \in Rtc
  BY DEF ButtonInv, ButtonTypes
<1>2. rtc.press \in Nat /\ rtc.click \in Nat /\ rtc.count \in Nat /\ Unread(rtc) \in Slots
  BY <1>1, RtcParts
<1>3. Unread(rtc) \in Nat
  BY <1>2, ButtonAssumption DEF Slots
<1>4. QED
  BY <1>1, <1>2, <1>3 DEF ButtonInv, ButtonTypes, Given

LEMMA AskKeeps ==
  ASSUME ButtonInv, Ask
  PROVE  ButtonInv'
<1>1. poll = "idle" /\ UNCHANGED <<low, edge, now, taken, tally, muddled>>
  BY DEF Ask
<1>2. CASE now < rtc.click /\ rtc' = [rtc EXCEPT !.click = 0] /\ poll' = "idle"
  <2>1. /\ rtc' \in Rtc /\ rtc'.events = rtc.events /\ rtc'.write = rtc.write
        /\ rtc'.read = rtc.read /\ rtc'.count = rtc.count /\ rtc'.press = rtc.press
    BY <1>2, CallParts, ClickSet
  <2>2. IdsAreGiven(rtc')
    BY <2>1, CallParts, RingOfSame
  <2>3. ButtonTypes' /\ Given' /\ WakesOnTheNextChange'
    BY <1>1, <1>2, <2>1, <2>2, CallParts
       DEF ButtonInv, ButtonTypes, Given, WakesOnTheNextChange, WakeLevel
  <2>4. muddled
    BY <1>2, CallParts DEF ButtonInv, Accounted
  <2>5. QED
    BY <1>1, <2>3, <2>4 DEF ButtonInv
<1>3. CASE Due(rtc) /\ poll' = "due" /\ UNCHANGED rtc
  <2>1. ButtonTypes' /\ Given' /\ WakesOnTheNextChange'
    BY <1>1, <1>3 DEF ButtonInv, ButtonTypes, Given, WakesOnTheNextChange, WakeLevel
  <2>2. rtc.click > 0
    BY <1>3 DEF Due
  <2>3. ASSUME ~muddled PROVE Accounted' /\ InOrder'
    <3>1. Accounted /\ InOrder
      BY <2>3 DEF ButtonInv
    <3>2. QED
      BY <1>1, <1>3, <2>2, <3>1, CallParts DEF Accounted, InOrder, Last
  <2>4. QED
    BY <1>1, <2>1, <2>3 DEF ButtonInv
<1>4. QED
  BY <1>1, <1>2, <1>3 DEF Ask

LEMMA FillKeeps ==
  ASSUME ButtonInv, Fill
  PROVE  ButtonInv'
<1>1. /\ poll = "due" /\ poll' = "filled" /\ rtc' = Filled(rtc, "single")
      /\ UNCHANGED <<low, edge, now, taken, tally, muddled>>
  BY DEF Fill
<1>2. "single" \in Kinds
  BY DEF Kinds
<1>3. /\ rtc' \in Rtc /\ IdsAreGiven(rtc') /\ rtc'.count = rtc.count + 1
      /\ rtc'.write = rtc.write /\ rtc'.read = rtc.read
      /\ rtc'.press = rtc.press /\ rtc'.click = rtc.click
      /\ \A i \in Slots : rtc'.events[i] =
                            IF i = rtc.write THEN [kind |-> "single", id |-> rtc.count + 1]
                            ELSE rtc.events[i]
      /\ Ordered(rtc, rtc.count) => Ordered(rtc', rtc.count)
  BY <1>1, <1>2, CallParts, FilledKeeps
<1>4. rtc'.count - 1 = rtc.count /\ rtc'.events[rtc.write].id = rtc'.count
  BY <1>3, CallParts, RtcParts
<1>5. ButtonTypes' /\ Given' /\ WakesOnTheNextChange'
  BY <1>1, <1>3, CallParts
     DEF ButtonInv, ButtonTypes, Given, WakesOnTheNextChange, WakeLevel
<1>6. ASSUME ~muddled PROVE Accounted' /\ InOrder'
  <2>1. Accounted /\ InOrder
    BY <1>6 DEF ButtonInv
  <2>2. Unread(rtc') = Unread(rtc)
    BY <1>3 DEF Unread
  <2>3. Ordered(rtc, rtc.count) /\ taken <= rtc.count - Unread(rtc)
    BY <1>1, <2>1 DEF InOrder, Last
  <2>4. Last' = rtc.count /\ Ordered(rtc', rtc.count)
    BY <1>1, <1>3, <1>4, <2>3 DEF Last
  <2>5. InOrder'
    BY <1>1, <1>3, <1>4, <2>2, <2>3, <2>4 DEF InOrder
  <2>6. Accounted'
    BY <1>1, <1>3, <2>1 DEF Accounted
  <2>7. QED
    BY <2>5, <2>6
<1>7. QED
  BY <1>1, <1>5, <1>6 DEF ButtonInv

LEMMA AdvanceKeeps ==
  ASSUME ButtonInv, Advance
  PROVE  ButtonInv'
<1>1. /\ poll = "filled" /\ poll' = "stored" /\ rtc' = Stepped(rtc)
      /\ UNCHANGED <<low, edge, now, taken, muddled>>
      /\ tally' = IF muddled THEN NoPresses ELSE [tally EXCEPT !.single = @ + 1]
  BY DEF Advance
<1>2. /\ rtc' \in Rtc /\ IdsAreGiven(rtc')
      /\ rtc'.events = rtc.events /\ rtc'.count = rtc.count
      /\ rtc'.press = rtc.press /\ rtc'.click = rtc.click
      /\ Unread(rtc') <= Unread(rtc) + 1
      /\ Ordered(rtc, rtc.count - 1) /\ rtc.events[rtc.write].id = rtc.count =>
           Ordered(rtc', rtc.count)
  BY <1>1, CallParts, SteppedKeeps
<1>3. tally' \in [heard : Nat, single : Nat, double : Nat, swallowed : Nat]
  BY <1>1, CallParts DEF NoPresses
<1>4. Unread(rtc') \in Int
  BY <1>2, RtcParts, ButtonAssumption DEF Slots
<1>5. ButtonTypes' /\ Given' /\ WakesOnTheNextChange'
  BY <1>1, <1>2, <1>3, CallParts
     DEF ButtonInv, ButtonTypes, Given, WakesOnTheNextChange, WakeLevel
<1>6. ASSUME ~muddled PROVE Accounted' /\ InOrder'
  <2>1. Accounted /\ InOrder
    BY <1>6 DEF ButtonInv
  <2>2. /\ Ordered(rtc, rtc.count - 1) /\ rtc.events[rtc.write].id = rtc.count
        /\ taken <= rtc.count - 1 - Unread(rtc)
    BY <1>1, <2>1 DEF InOrder, Last
  <2>3. Ordered(rtc', rtc'.count) /\ taken <= rtc'.count - Unread(rtc')
    BY <1>2, <1>4, <2>2, CallParts
  <2>4. InOrder'
    BY <1>1, <2>3 DEF InOrder, Last
  <2>5. tally'.heard = tally.heard /\ tally'.single = tally.single + 1
        /\ tally'.double = tally.double /\ tally'.swallowed = tally.swallowed
    BY <1>1, <1>6, CallParts
  <2>6. Accounted'
    BY <1>1, <1>2, <2>1, <2>5, CallParts DEF Accounted
  <2>7. QED
    BY <2>4, <2>6
<1>7. QED
  BY <1>1, <1>5, <1>6 DEF ButtonInv

LEMMA ForgetKeeps ==
  ASSUME ButtonInv, Forget
  PROVE  ButtonInv'
<1>1. /\ poll = "stored" /\ poll' = "idle" /\ rtc' = [rtc EXCEPT !.click = 0]
      /\ UNCHANGED <<low, edge, now, taken, tally, muddled>>
  BY DEF Forget
<1>2. /\ rtc' \in Rtc /\ rtc'.events = rtc.events /\ rtc'.write = rtc.write
      /\ rtc'.read = rtc.read /\ rtc'.count = rtc.count /\ rtc'.press = rtc.press
      /\ rtc'.click = 0
  BY <1>1, CallParts, ClickSet
<1>3. /\ Unread(rtc') = Unread(rtc)
      /\ IdsAreGiven(rtc')
      /\ Ordered(rtc', rtc.count) <=> Ordered(rtc, rtc.count)
  BY <1>2, CallParts, RingOfSame
<1>4. ButtonTypes' /\ Given' /\ WakesOnTheNextChange'
  BY <1>1, <1>2, <1>3, CallParts
     DEF ButtonInv, ButtonTypes, Given, WakesOnTheNextChange, WakeLevel
<1>5. ASSUME ~muddled PROVE Accounted' /\ InOrder'
  <2>1. Accounted /\ InOrder
    BY <1>5 DEF ButtonInv
  <2>2. Accounted'
    BY <1>1, <1>2, <2>1, CallParts DEF Accounted
  <2>3. InOrder'
    BY <1>1, <1>2, <1>3, <2>1 DEF InOrder, Last
  <2>4. QED
    BY <2>2, <2>3
<1>6. QED
  BY <1>1, <1>4, <1>5 DEF ButtonInv

(* The event copied is the oldest of the unread, and no later one precedes it. *)
LEMMA FetchKeeps ==
  ASSUME ButtonInv, Fetch
  PROVE  ButtonInv'
<1>1. /\ poll = "idle" /\ poll' = "copied" /\ Unread(rtc) > 0
      /\ taken' = rtc.events[rtc.read].id
      /\ UNCHANGED <<low, edge, now, rtc, tally, muddled>>
  BY DEF Fetch
<1>2. /\ rtc.read \in Slots /\ rtc.write \in Slots /\ rtc.events[rtc.read].id \in Nat
      /\ Unread(rtc) \in Slots
      /\ Unread(rtc) = IF rtc.write >= rtc.read THEN rtc.write - rtc.read
                       ELSE rtc.write - rtc.read + Ring
  BY CallParts, RtcParts
<1>3. rtc.events[rtc.read].id <= rtc.count
  BY <1>2, CallParts DEF IdsAreGiven
<1>4. ButtonTypes' /\ Given' /\ WakesOnTheNextChange'
  BY <1>1, <1>2, <1>3, CallParts
     DEF ButtonInv, ButtonTypes, Given, WakesOnTheNextChange, WakeLevel
<1>5. ASSUME ~muddled PROVE Accounted' /\ InOrder'
  <2>1. Accounted /\ InOrder
    BY <1>5 DEF ButtonInv
  <2>2. (rtc.write - Unread(rtc)) % Ring = rtc.read
    <3>1. (rtc.write - Unread(rtc)) % Ring =
            IF rtc.write >= Unread(rtc) THEN rtc.write - Unread(rtc)
            ELSE rtc.write - Unread(rtc) + Ring
      BY <1>2, IndexBack
    <3>2. QED
      BY <1>2, <3>1, ButtonAssumption DEF Slots
  <2>3. Ordered(rtc, rtc.count) /\ Unread(rtc) \in 1 .. Unread(rtc)
    BY <1>1, <2>1, CallParts DEF InOrder, Last
  <2>4. taken' = rtc.count - Unread(rtc) + 1
    BY <1>1, <2>2, <2>3 DEF Ordered
  <2>5. InOrder'
    BY <1>1, <2>3, <2>4 DEF InOrder, Last
  <2>6. Accounted'
    BY <1>1, <2>1 DEF Accounted
  <2>7. QED
    BY <2>5, <2>6
<1>6. QED
  BY <1>1, <1>4, <1>5 DEF ButtonInv

(* An index to read from that is moved on: fewer are unread, in the same order. *)
LEMMA ReadMoves ==
  ASSUME NEW s \in Rtc, NEW i \in Slots, NEW last, NEW g, g = [s EXCEPT !.read = i]
  PROVE  /\ g \in Rtc /\ g.events = s.events /\ g.write = s.write /\ g.read = i
         /\ g.count = s.count /\ g.press = s.press /\ g.click = s.click
         /\ Unread(g) \in Int
         /\ IdsAreGiven(s) => IdsAreGiven(g)
         /\ Unread(g) <= Unread(s) /\ Ordered(s, last) => Ordered(g, last)
<1>1. /\ g \in Rtc /\ g.events = s.events /\ g.write = s.write /\ g.read = i
      /\ g.count = s.count /\ g.press = s.press /\ g.click = s.click
  BY DEF Rtc
<1>2. Unread(g) \in Int /\ Unread(s) \in Int
  BY <1>1, RtcParts, ButtonAssumption DEF Slots
<1>3. QED
  BY <1>1, <1>2 DEF IdsAreGiven, Ordered

LEMMA FetchedKeeps ==
  ASSUME ButtonInv, Fetched
  PROVE  ButtonInv'
<1>1. /\ poll = "copied" /\ poll' = "idle" /\ rtc' = [rtc EXCEPT !.read = (rtc.read + 1) % Ring]
      /\ UNCHANGED <<low, edge, now, taken, tally, muddled>>
  BY CallParts DEF Fetched, Rtc
<1>2. /\ rtc.read \in Slots /\ (rtc.read + 1) % Ring \in Slots
      /\ (rtc.read + 1) % Ring = IF rtc.read + 1 = Ring THEN 0 ELSE rtc.read + 1
  BY CallParts, RtcParts, NextIndex
<1>3. /\ rtc' \in Rtc /\ rtc'.events = rtc.events /\ rtc'.write = rtc.write
      /\ rtc'.read = (rtc.read + 1) % Ring
      /\ rtc'.count = rtc.count /\ rtc'.press = rtc.press /\ rtc'.click = rtc.click
      /\ Unread(rtc') \in Int
      /\ IdsAreGiven(rtc')
      /\ Unread(rtc') <= Unread(rtc) /\ Ordered(rtc, rtc.count) => Ordered(rtc', rtc.count)
  BY <1>1, <1>2, CallParts, ReadMoves
<1>4. ButtonTypes' /\ Given' /\ WakesOnTheNextChange'
  BY <1>1, <1>3, CallParts
     DEF ButtonInv, ButtonTypes, Given, WakesOnTheNextChange, WakeLevel
<1>5. ASSUME ~muddled PROVE Accounted' /\ InOrder'
  <2>1. Accounted /\ InOrder
    BY <1>5 DEF ButtonInv
  <2>2. /\ Ordered(rtc, rtc.count) /\ Unread(rtc) > 0
        /\ taken = rtc.count - Unread(rtc) + 1
    BY <1>1, <2>1 DEF InOrder, Last
  <2>3. Unread(rtc') = Unread(rtc) - 1
    <3>1. /\ Unread(rtc) = IF rtc.write >= rtc.read THEN rtc.write - rtc.read
                           ELSE rtc.write - rtc.read + Ring
          /\ rtc.write \in Slots
      BY CallParts, RtcParts
    <3>2. Unread(rtc') = IF rtc'.write >= rtc'.read THEN rtc'.write - rtc'.read
                         ELSE rtc'.write - rtc'.read + Ring
      BY <1>3, RtcParts
    <3>3. QED
      BY <1>2, <1>3, <2>2, <3>1, <3>2, ButtonAssumption DEF Slots
  <2>4. Ordered(rtc', rtc'.count) /\ taken <= rtc'.count - Unread(rtc')
    BY <1>3, <2>2, <2>3, CallParts
  <2>5. InOrder'
    BY <1>1, <2>4 DEF InOrder, Last
  <2>6. Accounted'
    BY <1>1, <1>3, <2>1 DEF Accounted
  <2>7. QED
    BY <2>5, <2>6
<1>6. QED
  BY <1>1, <1>4, <1>5 DEF ButtonInv

LEMMA ClearEventsKeeps ==
  ASSUME ButtonInv, Clear
  PROVE  ButtonInv'
<1>1. /\ poll = "idle" /\ rtc' = [rtc EXCEPT !.read = rtc.write] /\ taken' = rtc.count
      /\ UNCHANGED <<low, edge, now, poll, tally, muddled>>
  BY DEF Clear
<1>2. rtc.write \in Slots
  BY CallParts, RtcParts
<1>3. /\ rtc' \in Rtc /\ rtc'.write = rtc.write /\ rtc'.read = rtc.write
      /\ rtc'.count = rtc.count /\ rtc'.press = rtc.press /\ rtc'.click = rtc.click
      /\ IdsAreGiven(rtc')
  BY <1>1, <1>2, CallParts, ReadMoves
<1>4. ButtonTypes' /\ Given' /\ WakesOnTheNextChange'
  BY <1>1, <1>3, CallParts
     DEF ButtonInv, ButtonTypes, Given, WakesOnTheNextChange, WakeLevel
<1>5. Unread(rtc') = 0
  <2>1. Unread(rtc') = rtc'.write - rtc'.read
    BY <1>2, <1>3, RtcParts, ButtonAssumption DEF Slots
  <2>2. QED
    BY <1>2, <1>3, <2>1, ButtonAssumption DEF Slots
<1>6. InOrder'
  BY <1>1, <1>3, <1>5, CallParts DEF InOrder, Last, Ordered
<1>7. ASSUME ~muddled PROVE Accounted'
  BY <1>1, <1>3, <1>7 DEF ButtonInv, Accounted
<1>8. QED
  BY <1>1, <1>4, <1>6, <1>7 DEF ButtonInv

(* RTC memory outlives the restart, and the clock does not: a click from before *)
(* would seem to be in the future, and is not counted on any more.           *)
LEMMA RestartKeeps ==
  ASSUME ButtonInv, Restart
  PROVE  ButtonInv'
<1>1. /\ low' \in BOOLEAN /\ edge' = FALSE /\ now' = 1 /\ poll' = "idle" /\ taken' = taken
      /\ rtc' = [rtc EXCEPT !.press = IF low' THEN 1 ELSE 0]
  BY DEF Restart
<1>2. /\ muddled' \in BOOLEAN
      /\ ~muddled' => ~muddled /\ ~(rtc.click > 0) /\ poll = "idle" /\ tally' = tally
      /\ tally' = NoPresses \/ tally' = tally
  BY DEF Restart
<1>3. /\ rtc' \in Rtc /\ rtc'.events = rtc.events /\ rtc'.write = rtc.write
      /\ rtc'.read = rtc.read /\ rtc'.count = rtc.count
      /\ rtc'.press = (IF low' THEN 1 ELSE 0) /\ rtc'.click = rtc.click
  BY <1>1, CallParts, PressSet
<1>4. /\ Unread(rtc') = Unread(rtc)
      /\ IdsAreGiven(rtc')
      /\ Ordered(rtc', rtc.count) <=> Ordered(rtc, rtc.count)
  BY <1>3, CallParts, RingOfSame
<1>5. tally' \in [heard : Nat, single : Nat, double : Nat, swallowed : Nat]
  BY <1>2, CallParts DEF NoPresses
<1>6. ButtonTypes' /\ Given' /\ WakesOnTheNextChange'
  <2>1. ButtonTypes'
    <3>1. edge' \in BOOLEAN
      BY <1>1, Zenon
    <3>2. now' \in Nat \ {0} /\ taken' \in Nat
          /\ poll' \in {"idle", "due", "filled", "stored", "copied"}
      BY <1>1, CallParts
    <3>3. low' \in BOOLEAN /\ muddled' \in BOOLEAN /\ rtc' \in Rtc
      BY <1>1, <1>2, <1>3, Zenon
    <3>4. QED
      BY <1>5, <3>1, <3>2, <3>3 DEF ButtonTypes
  <2>2. rtc'.press <= 1 /\ (rtc'.press > 0 <=> low')
    BY <1>3
  <2>3. Given'
    BY <1>1, <1>3, <1>4, <2>2, CallParts DEF Given
  <2>4. WakesOnTheNextChange'
    BY <2>2 DEF WakesOnTheNextChange, WakeLevel
  <2>5. QED
    BY <2>1, <2>3, <2>4
<1>7. ASSUME ~muddled' PROVE Accounted' /\ InOrder'
  <2>1. /\ Accounted /\ InOrder /\ rtc.click = 0 /\ poll = "idle" /\ tally' = tally
    BY <1>2, <1>7, CallParts DEF ButtonInv
  <2>2. Accounted'
    BY <1>1, <1>3, <2>1 DEF Accounted
  <2>3. InOrder'
    BY <1>1, <1>3, <1>4, <2>1 DEF InOrder, Last
  <2>4. QED
    BY <2>2, <2>3
<1>8. QED
  BY <1>2, <1>6, <1>7 DEF ButtonInv

LEMMA ButtonStep ==
  ASSUME ButtonInv, [ButtonNext]_buttonVars
  PROVE  ButtonInv'
<1>1. CASE Flip \/ Tick \/ UNCHANGED buttonVars
  <2>1. UNCHANGED <<rtc, poll, taken, muddled, tally>>
    BY <1>1 DEF Flip, Tick, buttonVars
  <2>2. now' \in Nat /\ now' >= now
    BY <1>1, CallParts DEF Flip, Tick, buttonVars
  <2>3. edge' = TRUE \/ (edge' = edge /\ low' = low)
    BY <1>1 DEF Flip, Tick, buttonVars
  <2>4. low' \in BOOLEAN /\ edge' \in BOOLEAN
    <3>1. low' = ~low \/ low' = low
      BY <1>1 DEF Flip, Tick, buttonVars
    <3>2. low \in BOOLEAN /\ edge \in BOOLEAN
      BY DEF ButtonInv, ButtonTypes
    <3>3. low' \in BOOLEAN
      BY <3>1, <3>2, Zenon
    <3>4. edge' \in BOOLEAN
      BY <2>3, <3>2, Zenon
    <3>5. QED
      BY <3>3, <3>4
  <2>5. rtc' = [rtc EXCEPT !.press = rtc.press]
    BY <2>1, CallParts DEF Rtc
  <2>6. ButtonTypes' /\ WakesOnTheNextChange' /\ rtc.press <= now'
    BY <2>1, <2>2, <2>3, <2>4, CallParts
       DEF ButtonInv, ButtonTypes, WakesOnTheNextChange, WakeLevel
  <2>7. QED
    BY <2>1, <2>5, <2>6, <2>2, CallParts, PressKeeps
<1>2. QED
  BY <1>1, InterruptKeeps, AskKeeps, FillKeeps, AdvanceKeeps, ForgetKeeps, FetchKeeps,
     FetchedKeeps, ClearEventsKeeps, RestartKeeps
     DEF ButtonNext

(* Whatever the thresholds, the size of the ring and the bounds: a chip asleep *)
(* wakes when the finger moves; and unless the interrupt or a restart came     *)
(* inside what the other side was doing, every short press is told once, and   *)
(* the unread events are the latest, in order and not fetched before.        *)
THEOREM ButtonAlwaysTells == ButtonSpec => []ButtonTells
<1>1. ButtonInv => ButtonTells
  <2> SUFFICES ASSUME ButtonInv, poll = "idle", ~muddled
               PROVE  /\ tally.heard = tally.single + 2 * tally.double + tally.swallowed
                                       + (IF rtc.click > 0 THEN 1 ELSE 0)
                      /\ \A k \in 1 .. Unread(rtc) :
                           /\ rtc.events[(rtc.write - k) % Ring].id = rtc.count - k + 1
                           /\ rtc.events[(rtc.write - k) % Ring].id > taken
    BY DEF ButtonInv, ButtonTells, PressesAreToldOnce
  <2>1. Accounted /\ Ordered(rtc, rtc.count) /\ taken <= rtc.count - Unread(rtc)
    BY DEF ButtonInv, InOrder, Last
  <2>2. ASSUME NEW k \in 1 .. Unread(rtc)
        PROVE  /\ rtc.events[(rtc.write - k) % Ring].id = rtc.count - k + 1
               /\ rtc.count - k + 1 > taken
    BY <2>1, CallParts DEF Ordered
  <2>3. QED
    BY <2>1, <2>2 DEF Accounted
<1>2. ButtonInv /\ [ButtonNext]_buttonVars => ButtonInv'
  BY ButtonStep
<1>3. QED
  BY <1>1, <1>2, ButtonStart, PTL DEF ButtonSpec

-----------------------------------------------------------------------------
(* The cart.                                                                 *)

CartMoments == 0 .. CartWrap - 1

CartRecords ==
  [state : {"off", "booting", "running", "settling"}, level : BOOLEAN,
   edge : CartMoments, beats : Nat, seen : BOOLEAN, opened : CartMoments,
   closed : CartMoments, quiet : CartMoments, fails : Nat]

CartTypes ==
  /\ cart \in CartRecords
  /\ cartNow \in CartMoments /\ cartGap \in 0 .. CartMaxStep
  /\ cartHist.rail \in 0 .. CartWrap /\ cartHist.edge \in 0 .. CartWrap
  /\ cartHist.streak \in 0 .. CartMaxStreak
  /\ cartHist = [rail |-> cartHist.rail, edge |-> cartHist.edge, streak |-> cartHist.streak,
                 last |-> cartHist.last]
  /\ cartHist.last.rail \in 0 .. CartWrap

(* What the clock shows of a window is its true time, and of the time since  *)
(* one at most that.                                                         *)
ClockTells ==
  /\ cart.state # "off" => /\ Since(cart.opened) = cartHist.rail /\ Since(cart.edge) = cartHist.edge
                           /\ cartHist.edge <= cartHist.rail
  /\ cart.state = "settling" => cartHist.edge >= CartSilent + Since(cart.quiet)
  /\ cart.state = "off" => Since(cart.closed) <= cartHist.rail

(* When the last tick passed, a window was not over.                         *)
WindowHolds ==
  /\ cart.state = "booting" => /\ ~cart.seen /\ cart.beats < CartBeatsMin
                               /\ cartHist.rail - cartGap < CartBootMs + cart.beats * CartMaxStep
  /\ cart.state \in {"running", "settling"} =>
       cart.seen /\ cartHist.rail - cartGap < CartLimit + CartBeatsMin * CartMaxStep

(* The counter is true until it comes around.                                *)
FailsCount == cartHist.streak < CartFailsMod => cart.fails = cartHist.streak

(* All of it, with what was to be shown of the past.                         *)
CartInv ==
  CartTypes /\ ClockTells /\ WindowHolds /\ FailsCount /\ CutsAreFair /\ BacksOff

(* What the assumption says of the constants, the products apart.            *)
LEMMA CartGiven ==
  /\ {CartInterval, CartSettle, CartRetry, CartRetryMax} \subseteq Nat
  /\ CartBootMs \in Nat \ {0} /\ CartSilent \in Nat \ {0} /\ CartLimit \in Nat \ {0}
  /\ CartBeatsMin \in Nat \ {0} /\ CartFailsMod \in Nat \ {0} /\ CartMaxStep \in Nat \ {0}
  /\ CartMaxStreak \in Nat \ {0} /\ CartMaxStreak >= CartRetryMax
  /\ CartMaxStreak >= CartFailsMod
  /\ CartBootMs < CartLimit /\ CartWrap \in Nat \ {0}
  /\ CartBeatsMin * CartMaxStep \in Nat
  /\ CartLimit + CartBeatsMin * CartMaxStep + CartMaxStep < CartWrap
  /\ (CartBeatsMin + 1) * CartMaxStep = CartBeatsMin * CartMaxStep + CartMaxStep
<1>1. \A b, m \in Nat : b * m \in Nat /\ (b + 1) * m = b * m + m
  OBVIOUS
<1>2. QED
  BY <1>1, CartAssumption

(* One beat more is one step more.                                           *)
LEMMA BeatsAdd ==
  ASSUME NEW b \in Nat, b < CartBeatsMin
  PROVE  /\ b * CartMaxStep \in Nat /\ (b + 1) * CartMaxStep = b * CartMaxStep + CartMaxStep
         /\ b * CartMaxStep + CartMaxStep <= CartBeatsMin * CartMaxStep
<1>1. CartBeatsMin \in Nat /\ CartMaxStep \in Nat
  BY CartGiven
<1>2. PICK k \in Nat : CartBeatsMin = b + 1 + k
  <2>1. CartBeatsMin - b - 1 \in Nat /\ CartBeatsMin = b + 1 + (CartBeatsMin - b - 1)
    BY <1>1
  <2>2. QED
    BY <2>1
<1>3. CartBeatsMin * CartMaxStep = (b + 1) * CartMaxStep + k * CartMaxStep
  BY <1>1, <1>2
<1>4. k * CartMaxStep \in Nat /\ b * CartMaxStep \in Nat /\ (b + 1) * CartMaxStep = b * CartMaxStep + CartMaxStep
  BY <1>1, <1>2
<1>5. QED
  BY <1>3, <1>4, <1>1

(* A difference of two moments on the clock.                                 *)
LEMMA ClockShows ==
  ASSUME NEW a \in CartMoments, NEW b \in CartMoments
  PROVE  (a - b) % CartWrap = IF a >= b THEN a - b ELSE a - b + CartWrap
<1>1. CartWrap \in Nat \ {0} /\ a \in Int /\ b \in Int /\ 0 <= a /\ a < CartWrap /\ 0 <= b /\ b < CartWrap
  BY CartGiven DEF CartMoments
<1>2. CASE a >= b
  BY <1>1, <1>2
<1>3. CASE ~(a >= b)
  BY <1>1, <1>3
<1>4. QED
  BY <1>2, <1>3

(* One tick of the clock.                                                    *)
LEMMA ClockGoesOn ==
  ASSUME NEW n \in CartMoments, NEW t \in CartMoments
  PROVE  /\ (n + 1) % CartWrap \in CartMoments
         /\ (((n + 1) % CartWrap) - t) % CartWrap =
              IF ((n - t) % CartWrap) = CartWrap - 1 THEN 0 ELSE ((n - t) % CartWrap) + 1
<1> DEFINE m == (n + 1) % CartWrap
<1>1. CartWrap \in Nat \ {0} /\ n \in Int /\ t \in Int /\ 0 <= n /\ n < CartWrap /\ 0 <= t /\ t < CartWrap
  BY CartGiven DEF CartMoments
<1>2. m = IF n = CartWrap - 1 THEN 0 ELSE n + 1
  <2>1. CASE n = CartWrap - 1
    BY <1>1, <2>1
  <2>2. CASE n # CartWrap - 1
    BY <1>1, <2>2
  <2>3. QED
    BY <2>1, <2>2
<1>3. m \in CartMoments
  BY <1>1, <1>2 DEF CartMoments
<1> HIDE DEF m
<1>4. /\ (m - t) % CartWrap = IF m >= t THEN m - t ELSE m - t + CartWrap
      /\ (n - t) % CartWrap = IF n >= t THEN n - t ELSE n - t + CartWrap
  BY <1>3, ClockShows
<1>5. (m - t) % CartWrap = IF ((n - t) % CartWrap) = CartWrap - 1 THEN 0 ELSE ((n - t) % CartWrap) + 1
  BY <1>1, <1>2, <1>4
<1>6. QED
  BY <1>3, <1>5 DEF m

(* What the clock shows of a moment is a moment.                             *)
LEMMA SinceNow ==
  ASSUME CartTypes
  PROVE  Since(cartNow) = 0 /\ \A t \in CartMoments : Since(t) \in CartMoments
<1>1. cartNow \in CartMoments /\ CartWrap \in Nat \ {0}
  BY CartGiven DEF CartTypes
<1>2. Since(cartNow) = 0
  BY <1>1, ClockShows DEF Since, CartMoments
<1>3. ASSUME NEW t \in CartMoments PROVE Since(t) \in CartMoments
  BY <1>1, <1>3, ClockShows DEF Since, CartMoments
<1>4. QED
  BY <1>2, <1>3

(* The power is off, the counts are nothing.                                 *)
LEMMA CartStarts == CartInit => CartInv
<1> SUFFICES ASSUME CartInit PROVE CartInv
  OBVIOUS
<1>1. /\ CartWrap \in Nat \ {0} /\ CartMaxStep \in Nat /\ CartMaxStreak \in Nat
      /\ 0 \in CartMoments
  BY CartGiven DEF CartMoments
<1>2. CartTypes
  BY <1>1 DEF CartInit, CartTypes, CartRecords, CartMoments
<1>3. cart.state = "off" /\ cart.closed = cartNow /\ cartHist.rail = 0 /\ cartHist.last.event = "none"
      /\ cartHist.streak = 0 /\ cart.fails = 0
  BY DEF CartInit
<1>4. ClockTells /\ WindowHolds /\ FailsCount /\ CutsAreFair /\ BacksOff
  BY <1>2, <1>3, SinceNow DEF ClockTells, WindowHolds, FailsCount, CutsAreFair, BacksOff
<1>5. QED
  BY <1>2, <1>4 DEF CartInv

(* A window that opens.                                                      *)
LEMMA OpeningKeeps ==
  ASSUME CartInv, NEW event \in {"asked", "opened"}, NEW level \in BOOLEAN,
         Opening(event, level), cartGap' \in {cartGap, 0}, cartNow' = cartNow,
         event = "opened" => Since(cart.closed) >= WaitMs
  PROVE  CartInv'
<1>1. /\ CartTypes /\ cartNow \in CartMoments /\ cart.state = "off"
      /\ cartGap \in 0 .. CartMaxStep
      /\ CartMaxStep \in Nat /\ cartGap' \in 0 .. CartMaxStep /\ CartWrap \in Nat \ {0}
  BY CartGiven DEF CartInv, CartTypes, Opening
<1>2. /\ cart' = [cart EXCEPT !.state = "booting", !.opened = cartNow, !.seen = FALSE,
                              !.beats = 0, !.level = level, !.edge = cartNow]
      /\ cartHist' = [rail |-> 0, edge |-> 0, streak |-> cartHist.streak,
                  last |-> [event |-> event, rail |-> cartHist.rail, edge |-> 0]]
  BY DEF Opening, Told
<1>3. /\ cart'.state = "booting" /\ cart'.opened = cartNow /\ ~cart'.seen
      /\ cart'.beats = 0 /\ cart'.edge = cartNow
      /\ cart'.fails = cart.fails
  BY <1>1, <1>2 DEF CartTypes, CartRecords
<1>4. CartTypes'
  <2>1. cart' \in CartRecords
    BY <1>1, <1>2 DEF CartTypes, CartRecords
  <2>2. /\ cartHist'.rail = 0 /\ cartHist'.edge = 0 /\ cartHist'.streak = cartHist.streak
        /\ cartHist'.last = [event |-> event, rail |-> cartHist.rail, edge |-> 0]
    BY <1>2
  <2>3. QED
    BY <1>1, <1>2, <2>1, <2>2 DEF CartTypes
<1>5. ClockTells'
  BY <1>1, <1>2, <1>3, <1>4, SinceNow DEF ClockTells, Since
<1>6. WindowHolds'
  BY <1>1, <1>2, <1>3, CartGiven DEF WindowHolds
<1>7. FailsCount' /\ CutsAreFair'
  BY <1>2, <1>3 DEF CartInv, FailsCount, CutsAreFair
<1>8. BacksOff'
  <2> SUFFICES ASSUME CartInterval + CartRetryMax * CartRetry < CartWrap, cartHist.streak < CartFailsMod,
                      event = "opened"
               PROVE  cartHist.rail >= CartInterval
                        + UpToCap(cartHist.streak) * CartRetry
    BY <1>2 DEF BacksOff
  <2> DEFINE many == UpToCap(cartHist.streak)
  <2>1. cart.fails = cartHist.streak /\ Since(cart.closed) <= cartHist.rail /\ cartHist.rail \in Nat
    BY <1>1 DEF CartInv, FailsCount, ClockTells, CartTypes
  <2>2. /\ many \in Nat /\ CartRetryMax \in Nat /\ CartRetry \in Nat /\ CartInterval \in Nat
        /\ many <= CartRetryMax
    BY <1>1, CartGiven DEF CartTypes, CartRecords, UpToCap
  <2>3. many * CartRetry \in Nat /\ many * CartRetry <= CartRetryMax * CartRetry
    <3> HIDE DEF many
    <3>1. PICK k \in Nat : CartRetryMax = many + k
      <4>1. CartRetryMax - many \in Nat /\ CartRetryMax = many + (CartRetryMax - many)
        BY <2>2
      <4>2. QED
        BY <4>1
    <3>2. CartRetryMax * CartRetry = many * CartRetry + k * CartRetry
      BY <2>2, <3>1
    <3>3. many * CartRetry \in Nat /\ k * CartRetry \in Nat
      BY <2>2, <3>1
    <3>4. QED
      BY <3>2, <3>3
  <2>4. WaitMs = (CartInterval + many * CartRetry) % CartWrap
    BY <2>1 DEF WaitMs, UpToCap
  <2> DEFINE wait == CartInterval + many * CartRetry
  <2>5. wait \in Nat /\ wait < CartWrap
    <3>1. \A a, b \in Nat : a <= b /\ CartInterval + b < CartWrap
                            => CartInterval + a \in Nat /\ CartInterval + a < CartWrap
      BY <1>1, <2>2
    <3>2. CartRetryMax * CartRetry \in Nat
      BY <2>2
    <3>3. QED
      BY <2>3, <3>1, <3>2
  <2> HIDE DEF wait, many
  <2>6. wait % CartWrap = wait
    BY <1>1, <2>5
  <2>7. Since(cart.closed) \in Nat
    BY <1>1, SinceNow DEF CartTypes, CartRecords, CartMoments
  <2>8. QED
    BY <2>1, <2>4, <2>5, <2>6, <2>7 DEF wait, many
<1>9. QED
  BY <1>4, <1>5, <1>6, <1>7, <1>8 DEF CartInv

(* A window that is closed, for a cause, on what the step made of the cart.  *)
LEMMA ClosingKeeps ==
  ASSUME CartInv, NEW d \in CartRecords, NEW event \in {"cut", "closed", "overran", "no_boot"},
         NEW since \in 0 .. CartWrap, NEW streak \in 0 .. CartMaxStreak,
         Closing(d, event, since, streak), cartGap' \in {cartGap, 0}, cartNow' = cartNow,
         streak < CartFailsMod => d.fails = streak,
         event = "closed" => since >= CartSilent + CartSettle \/ cartHist.rail >= CartLimit,
         event = "overran" => cartHist.rail >= CartLimit,
         event = "no_boot" => cartHist.rail >= CartBootMs
  PROVE  CartInv'
<1>1. /\ CartTypes /\ cartNow \in CartMoments /\ cartGap \in 0 .. CartMaxStep
      /\ CartMaxStep \in Nat /\ cartGap' \in 0 .. CartMaxStep /\ CartWrap \in Nat \ {0}
      /\ cartHist.rail \in 0 .. CartWrap
  BY CartGiven DEF CartInv, CartTypes
<1>2. /\ cart' = [d EXCEPT !.state = "off", !.closed = cartNow]
      /\ cartHist' = [rail |-> 0, edge |-> 0, streak |-> streak,
                  last |-> [event |-> event, rail |-> cartHist.rail, edge |-> since]]
  BY DEF Closing, Told
<1>3. /\ cart' \in CartRecords /\ cart'.state = "off" /\ cart'.closed = cartNow
      /\ cart'.fails = d.fails
  BY <1>1, <1>2 DEF CartRecords
<1>4. /\ cartHist'.rail = 0 /\ cartHist'.edge = 0 /\ cartHist'.streak = streak
      /\ cartHist'.last = [event |-> event, rail |-> cartHist.rail, edge |-> since]
  BY <1>2
<1>5. CartTypes'
  BY <1>1, <1>2, <1>3, <1>4 DEF CartTypes
<1>6. ClockTells'
  BY <1>1, <1>3, <1>4, SinceNow DEF ClockTells, Since
<1>7. WindowHolds' /\ FailsCount' /\ CutsAreFair' /\ BacksOff'
  BY <1>3, <1>4 DEF WindowHolds, FailsCount, CutsAreFair, BacksOff
<1>8. QED
  BY <1>5, <1>6, <1>7 DEF CartInv

(* One failure more is counted by both, until the counter is full.           *)
LEMMA FailsGoOn ==
  ASSUME CartInv, NEW d \in CartRecords, d.fails = cart.fails
  PROVE  /\ Failing(d) \in CartRecords /\ Longer(cartHist.streak) \in 0 .. CartMaxStreak
         /\ Longer(cartHist.streak) < CartFailsMod => Failing(d).fails = Longer(cartHist.streak)
<1>1. /\ CartFailsMod \in Nat \ {0} /\ CartMaxStreak \in Nat /\ CartMaxStreak >= CartFailsMod
      /\ cartHist.streak \in 0 .. CartMaxStreak /\ d.fails \in Nat
  BY CartGiven DEF CartInv, CartTypes, CartRecords
<1>2. (d.fails + 1) % CartFailsMod \in Nat
  BY <1>1
<1>3. Failing(d) \in CartRecords /\ Failing(d).fails = (d.fails + 1) % CartFailsMod
  BY <1>2 DEF Failing, CartRecords
<1>4. Longer(cartHist.streak) \in 0 .. CartMaxStreak
  BY <1>1 DEF Longer
<1>5. ASSUME Longer(cartHist.streak) < CartFailsMod PROVE Failing(d).fails = Longer(cartHist.streak)
  <2>1. /\ Longer(cartHist.streak) = cartHist.streak + 1 /\ d.fails = cartHist.streak
    BY <1>1, <1>5 DEF Longer, CartInv, FailsCount
  <2>2. (cartHist.streak + 1) % CartFailsMod = cartHist.streak + 1
    BY <1>1, <1>5, <2>1
  <2>3. QED
    BY <1>3, <2>1, <2>2
<1>6. QED
  BY <1>3, <1>4, <1>5

(* What a tick judges: the cart as its pin, heard first, left it.            *)
LEMMA HeardIs ==
  ASSUME CartInv, NEW level \in BOOLEAN
  PROVE  LET d == Heard(level)
             since == IF Changed(level) THEN 0 ELSE cartHist.edge
         IN  /\ d \in CartRecords /\ d.opened = cart.opened /\ d.fails = cart.fails
             /\ d.closed = cart.closed /\ d.quiet = cart.quiet /\ d.seen = cart.seen
             /\ d.beats = cart.beats
             /\ d.state = IF Changed(level) /\ cart.state = "settling" THEN "running" ELSE cart.state
             /\ d.edge = IF Changed(level) THEN cartNow ELSE cart.edge
             /\ cart.state # "off" => Since(d.edge) = since /\ since <= cartHist.rail
             /\ since \in 0 .. CartWrap
<1> DEFINE d == Heard(level)
           since == IF Changed(level) THEN 0 ELSE cartHist.edge
<1>1. /\ CartTypes /\ cart \in CartRecords /\ cartNow \in CartMoments
      /\ CartWrap \in Nat \ {0}
      /\ cartHist.edge \in 0 .. CartWrap /\ cartHist.rail \in 0 .. CartWrap
  BY CartGiven DEF CartInv, CartTypes
<1>2. CASE Changed(level)
  <2>1. d = [cart EXCEPT !.level = ~@, !.edge = cartNow,
                         !.state = IF @ = "settling" THEN "running" ELSE @]
    BY <1>2 DEF Heard, Noted
  <2>2. /\ d \in CartRecords /\ d.edge = cartNow
        /\ d.opened = cart.opened /\ d.fails = cart.fails
        /\ d.closed = cart.closed /\ d.quiet = cart.quiet /\ d.seen = cart.seen
        /\ d.beats = cart.beats
        /\ d.state = IF cart.state = "settling" THEN "running" ELSE cart.state
    BY <1>1, <2>1 DEF CartRecords
  <2>3. QED
    BY <1>1, <1>2, <2>2, SinceNow
<1>3. CASE ~Changed(level)
  BY <1>1, <1>3 DEF Heard, CartInv, ClockTells
<1>4. QED
  BY <1>2, <1>3

(* A beat that is heard before the cart is alive.                            *)
LEMMA BeatKeeps ==
  ASSUME CartInv, NEW level \in BOOLEAN, Changed(level), Beat, cartGap' = 0, cartNow' = cartNow
  PROVE  CartInv'
<1>1. /\ CartTypes /\ cart \in CartRecords /\ cartNow \in CartMoments
      /\ CartWrap \in Nat \ {0}
      /\ cartHist.rail \in 0 .. CartWrap /\ cartGap \in 0 .. CartMaxStep
      /\ CartMaxStep \in Nat \ {0} /\ CartBeatsMin \in Nat \ {0} /\ CartBootMs < CartLimit
      /\ CartBootMs \in Nat /\ CartLimit \in Nat
  BY CartGiven DEF CartInv, CartTypes
<1>2. /\ cart.state = "booting" /\ ~cart.seen /\ cart.beats \in Nat
      /\ cart.beats < CartBeatsMin
      /\ cartHist.rail - cartGap < CartBootMs + cart.beats * CartMaxStep
  BY <1>1 DEF CartInv, WindowHolds, Beat, Changed, CartRecords
<1>3. /\ cartHist' = [cartHist EXCEPT !.edge = 0]
      /\ cart' = IF cart.beats + 1 < CartBeatsMin THEN [Noted EXCEPT !.beats = @ + 1]
                 ELSE [Noted EXCEPT !.beats = @ + 1, !.seen = TRUE, !.state = "running"]
  BY DEF Beat
<1>4. /\ cartHist'.rail = cartHist.rail /\ cartHist'.edge = 0
      /\ cartHist'.streak = cartHist.streak
      /\ cartHist'.last = cartHist.last
      /\ cartHist' = [rail |-> cartHist.rail, edge |-> 0, streak |-> cartHist.streak, last |-> cartHist.last]
  BY <1>1, <1>3 DEF CartTypes
<1>5. /\ cart' \in CartRecords /\ cart'.edge = cartNow /\ cart'.opened = cart.opened
      /\ cart'.fails = cart.fails
      /\ cart'.closed = cart.closed /\ cart'.beats = cart.beats + 1
      /\ IF cart.beats + 1 < CartBeatsMin THEN cart'.state = "booting" /\ ~cart'.seen
         ELSE cart'.state = "running" /\ cart'.seen
  <2>1. /\ Noted \in CartRecords /\ Noted.edge = cartNow /\ Noted.opened = cart.opened
        /\ Noted.fails = cart.fails /\ Noted.closed = cart.closed /\ Noted.beats = cart.beats
        /\ Noted.state = cart.state /\ Noted.seen = cart.seen
    BY <1>1 DEF Noted, CartRecords
  <2> DEFINE n == Noted
  <2>2. n \in CartRecords /\ cart.beats + 1 \in Nat
    BY <1>2, <2>1
  <2>3. cart' = IF cart.beats + 1 < CartBeatsMin THEN [n EXCEPT !.beats = cart.beats + 1]
                ELSE [n EXCEPT !.beats = cart.beats + 1, !.seen = TRUE, !.state = "running"]
    BY <1>3, <2>1
  <2> HIDE DEF n
  <2>4. /\ [n EXCEPT !.beats = cart.beats + 1] \in CartRecords
        /\ [n EXCEPT !.beats = cart.beats + 1, !.seen = TRUE, !.state = "running"] \in CartRecords
    BY <2>2 DEF CartRecords
  <2>5. /\ cart' \in CartRecords /\ cart'.edge = n.edge /\ cart'.opened = n.opened
        /\ cart'.fails = n.fails /\ cart'.closed = n.closed /\ cart'.beats = cart.beats + 1
        /\ IF cart.beats + 1 < CartBeatsMin THEN cart'.state = n.state /\ cart'.seen = n.seen
           ELSE cart'.state = "running" /\ cart'.seen
    BY <2>2, <2>3, <2>4 DEF CartRecords
  <2>6. QED
    BY <1>2, <2>1, <2>5 DEF n
<1>6. CartTypes'
  BY <1>1, <1>4, <1>5 DEF CartTypes
<1>7. ClockTells'
  <2>1. Since(cart.opened) = cartHist.rail
    BY <1>2 DEF CartInv, ClockTells
  <2>2. QED
    BY <1>1, <1>2, <1>4, <1>5, <2>1, SinceNow DEF ClockTells, Since
<1>8. WindowHolds'
  <2>1. /\ cart.beats * CartMaxStep \in Nat /\ CartBeatsMin * CartMaxStep \in Nat
        /\ (cart.beats + 1) * CartMaxStep = cart.beats * CartMaxStep + CartMaxStep
        /\ cart.beats * CartMaxStep + CartMaxStep <= CartBeatsMin * CartMaxStep
    BY <1>2, BeatsAdd, CartGiven
  <2>2. cartHist.rail < CartBootMs + cart.beats * CartMaxStep + CartMaxStep
    BY <1>1, <1>2, <2>1
  <2>3. /\ cart'.state = "booting" => cartHist'.rail - cartGap' < CartBootMs + cart'.beats * CartMaxStep
        /\ cartHist'.rail - cartGap' < CartLimit + CartBeatsMin * CartMaxStep
    BY <1>1, <1>4, <1>5, <2>1, <2>2
  <2>4. QED
    BY <1>5, <2>3 DEF WindowHolds
<1>9. FailsCount' /\ CutsAreFair' /\ BacksOff'
  BY <1>4, <1>5 DEF CartInv, FailsCount, CutsAreFair, BacksOff
<1>10. QED
  BY <1>6, <1>7, <1>8, <1>9 DEF CartInv

(* A tick that goes on from its beat, or that heard none.                    *)
LEMMA TickKeeps == CartInv /\ CartTick => CartInv'
<1> SUFFICES ASSUME CartInv, CartTick PROVE CartInv'
  OBVIOUS
<1>1. PICK level \in BOOLEAN :
        LET d == Heard(level)
            since == IF Changed(level) THEN 0 ELSE cartHist.edge
        IN  \/ Changed(level) /\ Beat
            \/ /\ Changed(level) => cart.seen
               /\ \/ WindowDue(level) \/ NoBoot(d) \/ Backstop(d)
                  \/ Quiet(d, since) \/ Finished(d, since) \/ Waiting(d)
  BY DEF CartTick
<1> DEFINE d == Heard(level)
           since == IF Changed(level) THEN 0 ELSE cartHist.edge
<1>2. cartGap' = 0 /\ cartNow' = cartNow
  BY DEF CartTick
<1>3. /\ CartTypes /\ cart \in CartRecords /\ cartNow \in CartMoments
      /\ CartWrap \in Nat \ {0}
      /\ cartHist.rail \in 0 .. CartWrap /\ cartGap \in 0 .. CartMaxStep
      /\ CartMaxStep \in Nat
      /\ cartHist.streak \in 0 .. CartMaxStreak
      /\ cartHist = [rail |-> cartHist.rail, edge |-> cartHist.edge, streak |-> cartHist.streak,
                 last |-> cartHist.last]
      /\ CartBootMs \in Nat \ {0} /\ CartLimit \in Nat \ {0} /\ CartSilent \in Nat
      /\ CartSettle \in Nat
      /\ CartBeatsMin * CartMaxStep \in Nat
  BY CartGiven DEF CartInv, CartTypes
<1>4. /\ d \in CartRecords /\ d.opened = cart.opened /\ d.fails = cart.fails
      /\ d.closed = cart.closed /\ d.quiet = cart.quiet /\ d.seen = cart.seen
      /\ d.beats = cart.beats
      /\ d.state = IF Changed(level) /\ cart.state = "settling" THEN "running" ELSE cart.state
      /\ d.edge = IF Changed(level) THEN cartNow ELSE cart.edge
      /\ cart.state # "off" => Since(d.edge) = since /\ since <= cartHist.rail
      /\ since \in 0 .. CartWrap
  BY HeardIs
<1>5. cart.state # "off" => Since(d.opened) = cartHist.rail
  BY <1>4 DEF CartInv, ClockTells
<1>6. CASE Changed(level) /\ Beat
  BY <1>2, <1>6, BeatKeeps
<1>7. CASE WindowDue(level)
  <2>1. Opening("opened", level) /\ Since(cart.closed) >= WaitMs
    BY <1>7 DEF WindowDue
  <2>2. QED
    BY <1>2, <2>1, OpeningKeeps
<1> HIDE DEF d, since
<1>8. CASE NoBoot(d)
  <2>1. /\ d.state = "booting" /\ cartHist.rail >= CartBootMs
        /\ Closing(Failing(d), "no_boot", 0, Longer(cartHist.streak))
    BY <1>4, <1>5, <1>8 DEF NoBoot
  <2>2. /\ Failing(d) \in CartRecords /\ Longer(cartHist.streak) \in 0 .. CartMaxStreak
        /\ Longer(cartHist.streak) < CartFailsMod => Failing(d).fails = Longer(cartHist.streak)
    BY <1>4, FailsGoOn
  <2>3. 0 \in 0 .. CartWrap
    BY <1>3
  <2>4. QED
    BY <1>2, <2>1, <2>2, <2>3, ClosingKeeps
<1>9. CASE Backstop(d)
  <2>1. /\ d.state = "running" /\ cartHist.rail >= CartLimit
        /\ Closing(Failing(d), "overran", 0, Longer(cartHist.streak))
    BY <1>4, <1>5, <1>9 DEF Backstop
  <2>2. /\ Failing(d) \in CartRecords /\ Longer(cartHist.streak) \in 0 .. CartMaxStreak
        /\ Longer(cartHist.streak) < CartFailsMod => Failing(d).fails = Longer(cartHist.streak)
    BY <1>4, FailsGoOn
  <2>3. 0 \in 0 .. CartWrap
    BY <1>3
  <2>4. QED
    BY <1>2, <2>1, <2>2, <2>3, ClosingKeeps
<1>10. CASE Quiet(d, since)
  <2>1. /\ d.state = "running" /\ cart.state \in {"running", "settling"}
        /\ cartHist.rail < CartLimit
        /\ cart' = IF Since(d.edge) >= CartSilent
                   THEN [d EXCEPT !.state = "settling", !.quiet = cartNow] ELSE d
        /\ cartHist' = [cartHist EXCEPT !.edge = since]
    BY <1>4, <1>5, <1>10 DEF Quiet
  <2>2. /\ cartHist'.rail = cartHist.rail /\ cartHist'.edge = since
        /\ cartHist'.streak = cartHist.streak
        /\ cartHist'.last = cartHist.last
        /\ cartHist' = [rail |-> cartHist.rail, edge |-> since, streak |-> cartHist.streak,
                    last |-> cartHist.last]
    BY <1>3, <2>1
  <2>3. /\ cart' \in CartRecords /\ cart'.opened = cart.opened /\ cart'.edge = d.edge
        /\ cart'.fails = cart.fails /\ cart'.seen = cart.seen
        /\ cart'.state \in {"running", "settling"}
        /\ cart'.state = "settling" => cart'.quiet = cartNow /\ since >= CartSilent
    BY <1>3, <1>4, <2>1 DEF CartRecords
  <2>4. CartTypes'
    BY <1>2, <1>3, <1>4, <2>2, <2>3 DEF CartTypes
  <2>5. ClockTells'
    <3>1. /\ (cartNow' - cart'.opened) % CartWrap = cartHist'.rail
          /\ (cartNow' - cart'.edge) % CartWrap = cartHist'.edge
          /\ cartHist'.edge <= cartHist'.rail
      BY <1>2, <1>4, <1>5, <2>1, <2>2, <2>3 DEF Since
    <3>2. cart'.state = "settling" => cartHist'.edge >= CartSilent + ((cartNow' - cart'.quiet) % CartWrap)
      <4>1. (cartNow - cartNow) % CartWrap = 0
        BY <1>3, SinceNow DEF Since
      <4>2. CartSilent + 0 = CartSilent
        BY <1>3
      <4>3. QED
        BY <1>2, <2>2, <2>3, <4>1, <4>2
    <3>3. QED
      BY <2>3, <3>1, <3>2 DEF ClockTells, Since
  <2>6. WindowHolds'
    BY <1>2, <1>3, <2>1, <2>2, <2>3 DEF WindowHolds, CartInv
  <2>7. FailsCount' /\ CutsAreFair' /\ BacksOff'
    BY <2>2, <2>3 DEF CartInv, FailsCount, CutsAreFair, BacksOff
  <2>8. QED
    BY <2>4, <2>5, <2>6, <2>7 DEF CartInv
<1>11. CASE Finished(d, since)
  <2>1. /\ d.state = "settling" /\ cart.state = "settling" /\ ~Changed(level)
        /\ Since(cart.quiet) >= CartSettle \/ cartHist.rail >= CartLimit
        /\ Closing([d EXCEPT !.fails = 0], "closed", since, 0)
    BY <1>4, <1>5, <1>11 DEF Finished
  <2>2. since = cartHist.edge /\ cartHist.edge >= CartSilent + Since(cart.quiet) /\ Since(cart.quiet) \in Nat
    BY <1>3, <2>1, SinceNow DEF since, CartInv, ClockTells, CartRecords, CartMoments
  <2>3. since >= CartSilent + CartSettle \/ cartHist.rail >= CartLimit
    BY <1>3, <1>4, <2>1, <2>2
  <2>4. [d EXCEPT !.fails = 0] \in CartRecords /\ [d EXCEPT !.fails = 0].fails = 0
    BY <1>4 DEF CartRecords
  <2>5. 0 \in 0 .. CartMaxStreak
    BY CartGiven
  <2>6. QED
    BY <1>2, <1>4, <2>1, <2>3, <2>4, <2>5, ClosingKeeps
<1>12. CASE Waiting(d)
  <2>1. cart' = cart /\ cartHist' = cartHist
    BY <1>12 DEF Waiting
  <2>2. CartTypes' /\ ClockTells' /\ FailsCount' /\ CutsAreFair' /\ BacksOff'
    <3>1. 0 \in 0 .. CartMaxStep
      BY <1>3
    <3>2. QED
      BY <1>2, <2>1, <3>1
      DEF CartInv, CartTypes, ClockTells, Since, FailsCount, CutsAreFair, BacksOff
  <2>3. \/ cart.state = "off"
        \/ cart.state = "booting" /\ cartHist.rail < CartBootMs
        \/ cart.state = "settling" /\ cartHist.rail < CartLimit
    BY <1>4, <1>5, <1>12 DEF Waiting
  <2>4. cart.state = "booting" => cart.beats \in Nat /\ cart.beats * CartMaxStep \in Nat
    BY <1>3, BeatsAdd DEF CartInv, WindowHolds, CartRecords
  <2>5. WindowHolds'
    BY <1>2, <1>3, <2>1, <2>3, <2>4 DEF CartInv, WindowHolds
  <2>6. QED
    BY <2>2, <2>5 DEF CartInv
<1>13. QED
  BY <1>1, <1>6, <1>7, <1>8, <1>9, <1>10, <1>11, <1>12 DEF d, since

(* While time passes the clock and the history agree: a window is over well   *)
(* before the clock comes around.                                            *)
LEMMA PassKeeps == CartInv /\ CartPass => CartInv'
<1> SUFFICES ASSUME CartInv, CartPass PROVE CartInv'
  OBVIOUS
<1>1. /\ CartTypes /\ cart \in CartRecords /\ cartNow \in CartMoments
      /\ CartWrap \in Nat \ {0}
      /\ cartHist.rail \in 0 .. CartWrap /\ cartHist.edge \in 0 .. CartWrap
      /\ cartGap \in 0 .. CartMaxStep /\ CartMaxStep \in Nat
      /\ cartHist.streak \in 0 .. CartMaxStreak
      /\ cartHist = [rail |-> cartHist.rail, edge |-> cartHist.edge, streak |-> cartHist.streak,
                     last |-> cartHist.last]
      /\ CartLimit \in Nat /\ CartSilent \in Nat /\ CartBootMs \in Nat
      /\ CartBootMs < CartLimit
      /\ CartBeatsMin * CartMaxStep \in Nat
      /\ CartLimit + CartBeatsMin * CartMaxStep + CartMaxStep < CartWrap
  BY CartGiven DEF CartInv, CartTypes
<1> DEFINE longer(t) == IF t = CartWrap THEN t ELSE t + 1
<1>2. /\ cartGap < CartMaxStep /\ cartNow' = (cartNow + 1) % CartWrap
      /\ cartGap' = cartGap + 1 /\ cart' = cart
      /\ cartHist' = [cartHist EXCEPT !.rail = longer(@), !.edge = longer(@)]
  BY DEF CartPass
<1>3. /\ cartHist'.rail = longer(cartHist.rail) /\ cartHist'.edge = longer(cartHist.edge)
      /\ cartHist'.streak = cartHist.streak /\ cartHist'.last = cartHist.last
      /\ cartHist' = [rail |-> longer(cartHist.rail), edge |-> longer(cartHist.edge),
                  streak |-> cartHist.streak, last |-> cartHist.last]
  BY <1>1, <1>2
<1>4. cartNow' \in CartMoments /\ \A t \in CartMoments :
        /\ Since(t) \in CartMoments
        /\ (cartNow' - t) % CartWrap = IF Since(t) = CartWrap - 1 THEN 0 ELSE Since(t) + 1
  BY <1>1, <1>2, ClockGoesOn, SinceNow DEF Since
<1>5. CartTypes'
  <2>1. /\ longer(cartHist.rail) \in 0 .. CartWrap /\ longer(cartHist.edge) \in 0 .. CartWrap
        /\ cartGap + 1 \in 0 .. CartMaxStep
    BY <1>1, <1>2
  <2> HIDE DEF longer
  <2>2. /\ cartHist'.rail \in 0 .. CartWrap /\ cartHist'.edge \in 0 .. CartWrap
        /\ cartHist' = [rail |-> cartHist'.rail, edge |-> cartHist'.edge, streak |-> cartHist'.streak,
                    last |-> cartHist'.last]
        /\ cartHist'.last.rail \in 0 .. CartWrap /\ cartHist'.streak \in 0 .. CartMaxStreak
    BY <1>1, <1>3, <2>1 DEF CartTypes
  <2>3. cart' \in CartRecords /\ cartGap' \in 0 .. CartMaxStep /\ cartNow' \in CartMoments
    BY <1>1, <1>2, <1>4, <2>1
  <2>4. QED
    BY <2>2, <2>3 DEF CartTypes
<1>6. cart.state # "off" => cartHist.rail - cartGap < CartLimit + CartBeatsMin * CartMaxStep
  <2>1. CASE cart.state = "booting"
    <3>1. /\ cart.beats \in Nat /\ cart.beats < CartBeatsMin
          /\ cartHist.rail - cartGap < CartBootMs + cart.beats * CartMaxStep
      BY <1>1, <2>1 DEF CartInv, WindowHolds, CartRecords
    <3>2. /\ cart.beats * CartMaxStep \in Nat
          /\ cart.beats * CartMaxStep + CartMaxStep <= CartBeatsMin * CartMaxStep
      BY <3>1, BeatsAdd
    <3>3. QED
      BY <1>1, <3>1, <3>2
  <2>2. CASE cart.state \in {"running", "settling"}
    BY <2>2 DEF CartInv, WindowHolds
  <2>3. QED
    BY <1>1, <2>1, <2>2 DEF CartRecords
<1>7. cart.state # "off" => cartHist.rail < CartWrap - 1
  BY <1>1, <1>2, <1>6
<1>8. /\ cart.opened \in CartMoments /\ cart.edge \in CartMoments
      /\ cart.closed \in CartMoments
      /\ cart.quiet \in CartMoments
  BY <1>1 DEF CartRecords
<1>9. /\ cart.state # "off" => /\ Since(cart.opened) = cartHist.rail /\ Since(cart.edge) = cartHist.edge
                               /\ cartHist.edge <= cartHist.rail
      /\ cart.state = "settling" => cartHist.edge >= CartSilent + Since(cart.quiet)
      /\ cart.state = "off" => Since(cart.closed) <= cartHist.rail
  BY DEF CartInv, ClockTells
<1>10. ClockTells'
  <2>1. ASSUME cart.state # "off"
        PROVE  /\ (cartNow' - cart.opened) % CartWrap = cartHist'.rail
               /\ (cartNow' - cart.edge) % CartWrap = cartHist'.edge
               /\ cartHist'.edge <= cartHist'.rail
    BY <1>1, <1>3, <1>4, <1>7, <1>8, <1>9, <2>1
  <2>2. ASSUME cart.state = "settling"
        PROVE  cartHist'.edge >= CartSilent + ((cartNow' - cart.quiet) % CartWrap)
    <3>1. cartHist.edge < CartWrap - 1 /\ Since(cart.quiet) \in Nat
      BY <1>1, <1>4, <1>7, <1>8, <1>9, <2>2 DEF CartMoments
    <3>2. (cartNow' - cart.quiet) % CartWrap \in {0, Since(cart.quiet) + 1}
      BY <1>4, <1>8
    <3>3. QED
      BY <1>1, <1>3, <1>9, <2>2, <3>1, <3>2
  <2>3. ASSUME cart.state = "off"
        PROVE  (cartNow' - cart.closed) % CartWrap <= cartHist'.rail
    <3>1. Since(cart.closed) \in 0 .. CartWrap - 1
      BY <1>4, <1>8 DEF CartMoments
    <3>2. QED
      BY <1>1, <1>3, <1>4, <1>8, <1>9, <2>3, <3>1
  <2>4. QED
    BY <1>2, <2>1, <2>2, <2>3 DEF ClockTells, Since
<1>11. WindowHolds'
  <2>1. cart.state # "off" => cartHist'.rail - cartGap' = cartHist.rail - cartGap
    BY <1>1, <1>2, <1>3, <1>7
  <2>2. QED
    BY <1>2, <2>1 DEF CartInv, WindowHolds
<1>12. FailsCount' /\ CutsAreFair' /\ BacksOff'
  BY <1>2, <1>3 DEF CartInv, FailsCount, CutsAreFair, BacksOff
<1>13. QED
  BY <1>5, <1>10, <1>11, <1>12 DEF CartInv

(* Every step of the cart, of its loop and of a restart keeps it.            *)
LEMMA CartSteps == CartInv /\ [CartNext]_cartVars => CartInv'
<1> SUFFICES ASSUME CartInv, [CartNext]_cartVars PROVE CartInv'
  OBVIOUS
<1>1. /\ CartTypes /\ cart \in CartRecords /\ cartHist.edge \in 0 .. CartWrap
      /\ cartHist.streak \in 0 .. CartMaxStreak /\ CartWrap \in Nat /\ CartMaxStreak \in Nat
      /\ cartNow \in CartMoments
  BY CartGiven DEF CartInv, CartTypes
<1>2. CASE OpenAsked
  <2>1. PICK level \in BOOLEAN : Opening("asked", level)
    BY <1>2 DEF OpenAsked
  <2>2. cartGap' = cartGap /\ cartNow' = cartNow
    BY <1>2 DEF OpenAsked
  <2>3. QED
    BY <2>1, <2>2, OpeningKeeps
<1>3. CASE CloseAsked
  <2>1. /\ Closing(cart, "cut", cartHist.edge, cartHist.streak) /\ cartGap' = cartGap
        /\ cartNow' = cartNow
        /\ cartHist.streak < CartFailsMod => cart.fails = cartHist.streak
    BY <1>3 DEF CloseAsked, CartInv, FailsCount
  <2>2. QED
    BY <1>1, <2>1, ClosingKeeps
<1>4. CASE CartTick
  BY <1>4, TickKeeps
<1>5. CASE CartRestart
  <2> DEFINE d == [cart EXCEPT !.edge = 0, !.beats = 0, !.seen = FALSE, !.opened = 0,
                               !.quiet = 0, !.fails = 0]
  <2>1. d \in CartRecords /\ d.fails = 0
    <3>1. 0 \in CartMoments
      BY CartGiven DEF CartMoments
    <3>2. QED
      BY <1>1, <3>1 DEF CartRecords
  <2>2. cart' = [d EXCEPT !.state = "off", !.closed = cartNow]
    <3>1. cart' = [cart EXCEPT !.state = "off", !.edge = 0, !.beats = 0, !.seen = FALSE,
                               !.opened = 0, !.closed = cartNow, !.quiet = 0, !.fails = 0]
      BY <1>5 DEF CartRestart
    <3>2. QED
      BY <1>1, <3>1 DEF CartRecords
  <2> HIDE DEF d
  <2>3. Closing(d, "cut", cartHist.edge, 0) /\ cartGap' = 0 /\ cartNow' = cartNow
    BY <1>5, <2>2 DEF CartRestart, Closing
  <2>4. 0 \in 0 .. CartMaxStreak
    BY <1>1
  <2>5. QED
    BY <1>1, <2>1, <2>3, <2>4, ClosingKeeps
<1>6. CASE CartPass
  BY <1>6, PassKeeps
<1>7. CASE UNCHANGED cartVars
  BY <1>7 DEF cartVars, CartInv, CartTypes, ClockTells, WindowHolds, FailsCount, CutsAreFair,
              BacksOff, Since
<1>8. QED
  BY <1>2, <1>3, <1>4, <1>5, <1>6, <1>7 DEF CartNext

(* One tick passes at most since the last, in which a window was not over.   *)
LEMMA CartEnds == CartInv => CartIsSupervised
<1> SUFFICES ASSUME CartInv, cart.state # "off"
             PROVE  cartHist.rail < CartLimit + (CartBeatsMin + 1) * CartMaxStep
  BY DEF CartIsSupervised, WindowsEnd, CartInv
<1>1. /\ cart \in CartRecords /\ cartHist.rail \in Nat /\ cartGap \in 0 .. CartMaxStep
      /\ CartBeatsMin * CartMaxStep \in Nat
      /\ (CartBeatsMin + 1) * CartMaxStep = CartBeatsMin * CartMaxStep + CartMaxStep
      /\ CartMaxStep \in Nat /\ CartLimit \in Nat /\ CartBootMs \in Nat
      /\ CartBootMs < CartLimit
  BY CartGiven DEF CartInv, CartTypes
<1>2. CASE cart.state = "booting"
  <2>1. /\ cart.beats \in Nat /\ cart.beats < CartBeatsMin
        /\ cartHist.rail - cartGap < CartBootMs + cart.beats * CartMaxStep
    BY <1>1, <1>2 DEF CartInv, WindowHolds, CartRecords
  <2>2. /\ cart.beats * CartMaxStep \in Nat
        /\ cart.beats * CartMaxStep + CartMaxStep <= CartBeatsMin * CartMaxStep
    BY <2>1, BeatsAdd
  <2>3. QED
    BY <1>1, <2>1, <2>2
<1>3. CASE cart.state \in {"running", "settling"}
  <2>1. cartHist.rail - cartGap < CartLimit + CartBeatsMin * CartMaxStep
    BY <1>3 DEF CartInv, WindowHolds
  <2>2. QED
    BY <1>1, <2>1
<1>4. QED
  BY <1>1, <1>2, <1>3 DEF CartRecords

(* For every configuration whose boot deadline is under its backstop, on a   *)
(* clock that does not come around within a window, whatever the cart does   *)
(* with its pin: the power ends, is cut only for cause, and windows that came *)
(* to nothing put off the next.                                              *)
THEOREM CartAlwaysSupervised == CartSpec => []CartIsSupervised
<1>1. QED
  BY CartStarts, CartSteps, CartEnds, PTL DEF CartSpec

-----------------------------------------------------------------------------
(* The radio.                                                                *)

RadioMoments == 0 .. RadioWrap - 1

(* A write of a USB module leaves the guard to end a pause after it, on a    *)
(* clock that wraps, until a whole clock has gone without one.               *)
GuardTells ==
  /\ clock \in RadioMoments /\ quiet.since \in 0 .. RadioWrap
  /\ quiet = [since |-> quiet.since, before |-> quiet.before]
  /\ usb /\ quiet.since < RadioWrap =>
       until = (clock - quiet.since + RadioGuard) % RadioWrap

(* With what was to be shown of setups and writes.                           *)
RadioInv == SetupProves /\ GuardKept /\ GuardTells

(* A command for the mode leaves the registers as they are.                  *)
LEMMA ModeKeepsRegs ==
  ASSUME NEW m, NEW mode, NEW a \in ModeSet(m, mode)
  PROVE  a.module.regs = m.regs
<1> DEFINE obeyed == [m EXCEPT !.mode = mode]
<1>1. obeyed.regs = m.regs
  OBVIOUS
<1>2. a.module \in {m, obeyed}
  BY DEF ModeSet
<1>3. QED
  BY <1>1, <1>2

(* An update that is said to have worked, and warns of nothing, left the     *)
(* registers that were asked for.                                            *)
LEMMA UpdateProves ==
  ASSUME NEW m, NEW regs, NEW up \in Updated(m, regs), up.ok, ~up.warned
  PROVE  up.module.regs = regs
<1> DEFINE written == IF m.regs = regs THEN {[module |-> m, ok |-> TRUE]}
                      ELSE Written(m, regs)
<1>1. PICK w \in {x \in written : x.ok}, answered \in Reads :
        up = [module |-> w.module, ok |-> TRUE,
              warned |-> m.regs # regs /\ (w.module.regs # regs \/ ~answered)]
  BY DEF Updated
<1>2. CASE m.regs = regs
  BY <1>1, <1>2
<1>3. CASE m.regs # regs
  BY <1>1, <1>3
<1>4. QED
  BY <1>2, <1>3

(* What a setup that worked says of the registers is so when it returns.     *)
LEMMA LoraSetupKeeps ==
  ASSUME RadioInv, NEW config \in RadioConfigs, LoraSetup(config)
  PROVE  RadioInv'
<1>1. PICK uart \in BOOLEAN, mode \in ModeSet(module, "config") :
      \E up \in Updated(mode.module, Wanted(config)) :
      \E asleep \in ModeSet((IF mode.ok THEN up ELSE mode).module, "sleep") :
         LET ok == uart /\ mode.ok /\ up.ok /\ asleep.ok
         IN  /\ module' = IF uart THEN asleep.module ELSE module
             /\ setup' = [ok |-> ok, config |-> config,
                          warned |-> mode.ok /\ up.ok /\ up.warned]
  BY DEF LoraSetup
<1>2. PICK up \in Updated(mode.module, Wanted(config)) :
      \E asleep \in ModeSet((IF mode.ok THEN up ELSE mode).module, "sleep") :
         LET ok == uart /\ mode.ok /\ up.ok /\ asleep.ok
         IN  /\ module' = IF uart THEN asleep.module ELSE module
             /\ setup' = [ok |-> ok, config |-> config,
                          warned |-> mode.ok /\ up.ok /\ up.warned]
  BY <1>1
<1>3. PICK asleep \in ModeSet((IF mode.ok THEN up ELSE mode).module, "sleep") :
         /\ module' = IF uart THEN asleep.module ELSE module
         /\ setup' = [ok |-> uart /\ mode.ok /\ up.ok /\ asleep.ok, config |-> config,
                      warned |-> mode.ok /\ up.ok /\ up.warned]
  BY <1>2
<1>4. usb' = usb /\ UNCHANGED <<clock, until, quiet>>
  BY DEF LoraSetup, tx
<1>5. SetupProves'
  <2> SUFFICES ASSUME setup'.ok, ~setup'.warned
               PROVE  module'.regs = Wanted(config)
    BY <1>3, <1>4 DEF SetupProves, Wanted
  <2>1. uart /\ mode.ok /\ up.ok /\ ~up.warned
    BY <1>3
  <2>2. up.module.regs = Wanted(config)
    BY <2>1, UpdateProves
  <2>3. asleep.module.regs = up.module.regs
    BY <1>3, <2>1, ModeKeepsRegs
  <2>4. QED
    BY <1>3, <2>1, <2>2, <2>3
<1>6. QED
  BY <1>4, <1>5 DEF RadioInv, GuardKept, GuardTells, RadioMoments

(* The module is told its mode, the registers stay.                          *)
LEMMA LoraStartStopKeep ==
  ASSUME RadioInv, LoraStart \/ LoraStop
  PROVE  RadioInv'
<1>1. module'.regs = module.regs
  <2>1. CASE LoraStart
    <3>1. PICK first \in ModeSet(module, "normal") :
            \/ module' = first.module
            \/ \E again \in ModeSet(first.module, "normal") : module' = again.module
      BY <2>1 DEF LoraStart
    <3>2. first.module.regs = module.regs
      BY ModeKeepsRegs
    <3>3. CASE module' = first.module
      BY <3>2, <3>3
    <3>4. CASE \E again \in ModeSet(first.module, "normal") : module' = again.module
      BY <3>2, <3>4, ModeKeepsRegs
    <3>5. QED
      BY <3>1, <3>3, <3>4
  <2>2. CASE LoraStop
    BY <2>2, ModeKeepsRegs DEF LoraStop
  <2>3. QED
    BY <2>1, <2>2
<1>2. usb' = usb /\ setup' = setup /\ UNCHANGED <<clock, until, quiet>>
  BY DEF LoraStart, LoraStop, tx
<1>3. QED
  BY <1>1, <1>2 DEF RadioInv, SetupProves, Wanted, GuardKept, GuardTells, RadioMoments

(* Sums and differences of moments, d ticks on.                              *)
LEMMA ClockSums ==
  ASSUME NEW n \in RadioMoments, NEW since \in 0 .. RadioWrap - 1,
         NEW d \in 0 .. RadioWait, since + d < RadioWrap
  PROVE  /\ (n + d) % RadioWrap \in RadioMoments
         /\ (((n + d) % RadioWrap) - (since + d) + RadioGuard) % RadioWrap
              = (n - since + RadioGuard) % RadioWrap
         /\ (n + d - ((n - since + RadioGuard) % RadioWrap)) % RadioWrap
              = (since + d - RadioGuard) % RadioWrap
<1>1. /\ RadioWrap \in Nat \ {0} /\ RadioGuard \in Nat /\ RadioWait \in Nat
      /\ RadioGuard < RadioWrap /\ RadioWait < RadioWrap
  BY RadioAssumption
<1>2. /\ n \in 0 .. RadioWrap - 1 /\ n \in Int /\ since \in Int /\ d \in Int
      /\ 0 <= n /\ n < RadioWrap /\ 0 <= since /\ since < RadioWrap /\ 0 <= d /\ d < RadioWrap
  BY <1>1 DEF RadioMoments
<1>3. (n + d) % RadioWrap = IF n + d >= RadioWrap THEN n + d - RadioWrap ELSE n + d
  BY <1>1, <1>2
<1>4. (n + d) % RadioWrap \in RadioMoments
  BY <1>1, <1>2, <1>3 DEF RadioMoments
<1> DEFINE k == n - since + RadioGuard
<1>5. /\ k \in Int /\ -RadioWrap < k /\ k < 2 * RadioWrap
      /\ k % RadioWrap = IF k < 0 THEN k + RadioWrap
                         ELSE IF k >= RadioWrap THEN k - RadioWrap ELSE k
  <2>1. k \in Int /\ -RadioWrap < k /\ k < 2 * RadioWrap
    BY <1>1, <1>2
  <2> HIDE DEF k
  <2>2. CASE k < 0
    BY <1>1, <2>1, <2>2
  <2>3. CASE k >= RadioWrap
    BY <1>1, <2>1, <2>3
  <2>4. CASE 0 <= k /\ k < RadioWrap
    BY <1>1, <2>1, <2>4
  <2>5. QED
    BY <1>1, <2>1, <2>2, <2>3, <2>4
<1>6. (((n + d) % RadioWrap) - (since + d) + RadioGuard) % RadioWrap = k % RadioWrap
  <2>1. CASE n + d < RadioWrap
    <3>1. ((n + d) % RadioWrap) - (since + d) + RadioGuard = k
      BY <1>1, <1>2, <1>3, <2>1
    <3>2. QED
      BY <3>1
  <2>2. CASE n + d >= RadioWrap
    <3>1. ((n + d) % RadioWrap) - (since + d) + RadioGuard = k - RadioWrap
      BY <1>1, <1>2, <1>3, <2>2
    <3>2. (k - RadioWrap) % RadioWrap = k % RadioWrap
      <4> HIDE DEF k
      <4>1. QED
        BY <1>1, <1>5
    <3>3. QED
      BY <3>1, <3>2
  <2>3. QED
    BY <1>1, <1>2, <2>1, <2>2
<1>7. (n + d - (k % RadioWrap)) % RadioWrap = (since + d - RadioGuard) % RadioWrap
  <2> DEFINE j == since + d - RadioGuard
  <2>1. /\ j \in Int /\ -RadioWrap < j /\ j < RadioWrap
        /\ n + d - (k % RadioWrap) \in {j, j - RadioWrap, j + RadioWrap}
    BY <1>1, <1>2, <1>5
  <2>2. (j - RadioWrap) % RadioWrap = j % RadioWrap /\ (j + RadioWrap) % RadioWrap = j % RadioWrap
    <3> HIDE DEF j
    <3>1. QED
      BY <1>1, <2>1
  <2>3. QED
    BY <2>1, <2>2
<1>8. QED
  BY <1>4, <1>6, <1>7

(* What the history counts on, the guard goes on to tell.                    *)
LEMMA GuardGoesOn ==
  ASSUME GuardTells, NEW d \in 0 .. RadioWait,
         clock' = (clock + d) % RadioWrap, quiet'.since = QuietFor(d),
         quiet' = [since |-> quiet'.since, before |-> quiet'.before],
         until' = until, usb' = usb
  PROVE  GuardTells'
<1>1. /\ RadioWrap \in Nat \ {0} /\ RadioWait \in Nat /\ d \in Nat /\ clock \in RadioMoments
      /\ quiet.since \in 0 .. RadioWrap
  BY RadioAssumption DEF GuardTells
<1>2. clock' \in RadioMoments
  BY <1>1 DEF RadioMoments
<1>3. quiet'.since \in 0 .. RadioWrap
  BY <1>1 DEF QuietFor
<1>4. ASSUME usb, quiet'.since < RadioWrap
      PROVE  until = (clock' - quiet'.since + RadioGuard) % RadioWrap
  <2>1. /\ quiet'.since = quiet.since + d /\ quiet.since + d < RadioWrap
        /\ quiet.since \in 0 .. RadioWrap - 1
    BY <1>1, <1>4 DEF QuietFor
  <2>2. until = (clock - quiet.since + RadioGuard) % RadioWrap
    BY <1>1, <1>4, <2>1 DEF GuardTells
  <2>3. (((clock + d) % RadioWrap) - (quiet.since + d) + RadioGuard) % RadioWrap
          = (clock - quiet.since + RadioGuard) % RadioWrap
    BY <1>1, <2>1, ClockSums
  <2>4. QED
    BY <2>1, <2>2, <2>3
<1>5. QED
  BY <1>2, <1>3, <1>4 DEF GuardTells

(* The guard that looks passed has passed.                                   *)
LEMMA PassedIsPassed ==
  ASSUME GuardTells, usb, NEW d \in 0 .. RadioWait, Passed(clock + d)
  PROVE  QuietFor(d) >= RadioGuard
<1>1. /\ RadioWrap \in Nat \ {0} /\ RadioWait \in Nat /\ RadioGuard \in Nat \ {0}
      /\ RadioGuard <= RadioWait /\ 2 * RadioWait < RadioWrap
      /\ d \in Nat /\ clock \in RadioMoments /\ quiet.since \in 0 .. RadioWrap
  BY RadioAssumption DEF GuardTells
<1>2. CASE quiet.since + d >= RadioWrap
  BY <1>1, <1>2 DEF QuietFor
<1>3. CASE quiet.since + d < RadioWrap
  <2> DEFINE far == quiet.since + d - RadioGuard
  <2>1. quiet.since \in 0 .. RadioWrap - 1 /\ QuietFor(d) = quiet.since + d
    BY <1>1, <1>3 DEF QuietFor
  <2>2. until = (clock - quiet.since + RadioGuard) % RadioWrap
    BY <1>1, <2>1 DEF GuardTells
  <2>3. (clock + d - until) % RadioWrap = far % RadioWrap
    BY <1>1, <1>3, <2>1, <2>2, ClockSums
  <2>4. far % RadioWrap < RadioWrap \div 2
    <3>1. (clock + d - until) % RadioWrap < RadioWrap \div 2
      <4>1. until \in Int /\ clock \in Int /\ clock + d - until = (clock + d) - until
        BY <1>1, <2>2 DEF RadioMoments
      <4>2. QED
        BY <4>1 DEF Passed
    <3> HIDE DEF far
    <3>2. QED
      BY <2>3, <3>1
  <2>5. far \in Int /\ -RadioGuard <= far /\ far < RadioWrap
    BY <1>1, <1>3, <2>1
  <2>6. far >= 0
    <3> SUFFICES ASSUME far < 0 PROVE FALSE
      BY <2>5
    <3> HIDE DEF far
    <3>1. far % RadioWrap = far + RadioWrap
      BY <1>1, <2>5
    <3>2. 2 * (RadioWrap \div 2) <= RadioWrap /\ RadioWrap \div 2 \in Int
      BY <1>1
    <3>3. QED
      BY <1>1, <2>4, <2>5, <3>1, <3>2
  <2>7. QED
    BY <1>1, <2>1, <2>6
<1>4. QED
  BY <1>1, <1>2, <1>3

(* A write sets the guard anew.                                              *)
LEMMA LoraWriteKeeps ==
  ASSUME RadioInv, LoraWrite
  PROVE  RadioInv'
<1>1. PICK d \in 0 .. RadioWait :
        /\ usb => Passed(clock + d)
        /\ clock' = (clock + d) % RadioWrap
        /\ until' = IF usb THEN (clock' + RadioGuard) % RadioWrap ELSE until
        /\ quiet' = [since |-> 0, before |-> QuietFor(d)]
  BY DEF LoraWrite
<1>2. usb' = usb /\ module' = module /\ setup' = setup
  BY DEF LoraWrite
<1>3. /\ RadioWrap \in Nat \ {0} /\ RadioGuard \in Nat /\ clock \in RadioMoments /\ d \in Nat
  BY RadioAssumption DEF RadioInv, GuardTells
<1>4. SetupProves'
  BY <1>2 DEF RadioInv, SetupProves, Wanted
<1>5. GuardKept'
  BY <1>1, <1>2, PassedIsPassed DEF RadioInv, GuardKept
<1>6. GuardTells'
  <2>1. clock' \in RadioMoments
    BY <1>1, <1>3 DEF RadioMoments
  <2>2. clock' - 0 + RadioGuard = clock' + RadioGuard
    BY <1>3, <2>1 DEF RadioMoments
  <2>3. QED
    BY <1>1, <1>2, <1>3, <2>1, <2>2 DEF GuardTells
<1>7. QED
  BY <1>4, <1>5, <1>6 DEF RadioInv

(* Every step of the driver and of time keeps it.                            *)
LEMMA RadioSteps == RadioInv /\ [RadioNext]_radioVars => RadioInv'
<1> SUFFICES ASSUME RadioInv, [RadioNext]_radioVars PROVE RadioInv'
  OBVIOUS
<1>1. ASSUME NEW config \in RadioConfigs, LoraSetup(config) PROVE RadioInv'
  BY <1>1, LoraSetupKeeps
<1>2. CASE LoraStart \/ LoraStop
  BY <1>2, LoraStartStopKeep
<1>3. CASE LoraWrite
  BY <1>3, LoraWriteKeeps
<1>4. CASE LoraWriteRefused \/ RadioTick
  <2>1. PICK d \in 0 .. RadioWait :
          clock' = (clock + d) % RadioWrap /\ quiet' = [quiet EXCEPT !.since = QuietFor(d)]
    <3>1. RadioWait \in 0 .. RadioWait /\ 1 \in 0 .. RadioWait
      BY RadioAssumption
    <3>2. QED
      BY <1>4, <3>1 DEF LoraWriteRefused, RadioTick
  <2>2. UNCHANGED <<usb, module, setup, until>>
    BY <1>4 DEF LoraWriteRefused, RadioTick
  <2>3. /\ quiet'.since = QuietFor(d) /\ quiet'.before = quiet.before
        /\ quiet' = [since |-> quiet'.since, before |-> quiet'.before]
    BY <2>1 DEF RadioInv, GuardTells
  <2>4. GuardTells'
    BY <2>1, <2>2, <2>3, GuardGoesOn DEF RadioInv
  <2>5. QED
    BY <2>2, <2>3, <2>4 DEF RadioInv, SetupProves, Wanted, GuardKept
<1>5. CASE UNCHANGED radioVars
  BY <1>5 DEF radioVars, RadioInv, SetupProves, Wanted, GuardKept, GuardTells, RadioMoments
<1>6. QED
  BY <1>1, <1>2, <1>3, <1>4, <1>5 DEF RadioNext

(* Nothing was said yet, and no write has been.                              *)
LEMMA RadioStarts == RadioInit => RadioInv
<1> SUFFICES ASSUME RadioInit PROVE RadioInv
  OBVIOUS
<1>1. /\ RadioWrap \in Nat \ {0} /\ RadioGuard \in Nat /\ RadioGuard <= RadioWrap
  BY RadioAssumption
<1>2. QED
  BY <1>1 DEF RadioInit, RadioInv, SetupProves, GuardKept, GuardTells, RadioMoments

(* For any registers, guard and clock, whatever the module obeys, answers    *)
(* and stores: a setup that returned OK without a warning left the registers *)
(* it was asked for, and two writes over USB are a guard apart, also when    *)
(* the clock comes around in between.                                        *)
THEOREM RadioAlwaysKeepsItsWord == RadioSpec => []RadioKeepsItsWord
<1>1. RadioInv => RadioKeepsItsWord
  BY DEF RadioInv, RadioKeepsItsWord
<1>2. QED
  BY <1>1, RadioStarts, RadioSteps, PTL DEF RadioSpec

-----------------------------------------------------------------------------
Block == [station : Nat, window : Nat, interval : Nat, offset : Nat,
          report : Seq(Statements(Subjects))]

(* A block that is in order, its seeded records where the defaults have them. *)
Orderly ==
  {b \in Block :
     /\ InReach(b.station) /\ WindowIsValid(b.window)
     /\ IntervalIsValid(b.interval) /\ IntervalIsValid(b.offset)
     /\ Len(b.report) <= ReportMax
     /\ \A i, j \in DOMAIN b.report : b.report[i].subject = b.report[j].subject => i = j
     /\ \A i \in DOMAIN Scheduled :
          i \in DOMAIN b.report /\ b.report[i].subject = Scheduled[i]}

BlockInv ==
  /\ block \in Orderly
  /\ stored = NoBlock \/ stored \in Orderly
  /\ AcceptedIsStated

BlockIsSound == BlockInOrder(block) /\ AcceptedIsStated /\ KeysReadBack /\ ReportIsEverything

(* The numbers the constants stand for. *)
LEMMA SettingsNumbers ==
  /\ ReportMax \in Nat /\ SettingsWindowMax \in Nat /\ SettingsIntervalMax \in Nat
  /\ Broadcast \in Nat /\ Top \in Nat /\ TextMod \in Nat /\ Top < TextMod
  /\ Broadcast <= Top /\ SettingsWindowMax <= Top /\ SettingsIntervalMax <= Top
  /\ Numbers \subseteq Nat
  /\ Scheduled \in Seq(System) /\ Len(Scheduled) \in Nat
  /\ DOMAIN Scheduled = 1 .. Len(Scheduled) /\ Len(Scheduled) <= ReportMax
  /\ System \subseteq Subjects
BY SettingsGiven DEF SettingsAssumption, Subjects

(* A statement says what it was made of. *)
LEMMA StatedIs ==
  ASSUME NEW t, NEW startup \in BOOLEAN, NEW period \in 0 .. Top
  PROVE  /\ Stated(t, startup, period) \in Statements({t})
         /\ Stated(t, startup, period).subject = t
         /\ Stated(t, startup, period).startup = startup
         /\ Stated(t, startup, period).period = period
         /\ Stated(t, startup, period).cyclic = (period > 0)
BY SettingsNumbers DEF Stated, Statements

(* The records of a block are what they are. *)
LEMMA OrderlyIs ==
  ASSUME NEW s \in Orderly
  PROVE  /\ s \in Block /\ Len(s.report) \in Nat /\ Len(s.report) <= ReportMax
         /\ s.report \in Seq(Statements(Subjects))
         /\ DOMAIN s.report = 1 .. Len(s.report)
         /\ \A i \in 1 .. Len(s.report) : s.report[i] \in Statements(Subjects)
         /\ \A i \in 1 .. Len(s.report) : s.report[i].subject \in Subjects
         /\ \A i, j \in 1 .. Len(s.report) : s.report[i].subject = s.report[j].subject => i = j
         /\ Len(Scheduled) <= Len(s.report)
         /\ \A i \in 1 .. Len(Scheduled) : s.report[i].subject = Scheduled[i]
         /\ s.station \in Nat /\ s.window \in Nat /\ s.interval \in Nat /\ s.offset \in Nat
         /\ InReach(s.station) /\ WindowIsValid(s.window)
         /\ IntervalIsValid(s.interval) /\ IntervalIsValid(s.offset)
<1>1. s \in Block
  BY DEF Orderly
<1>2. s.report \in Seq(Statements(Subjects))
  BY <1>1 DEF Block
<1>3. Len(s.report) \in Nat /\ DOMAIN s.report = 1 .. Len(s.report)
  BY <1>2
<1>4. \A i \in 1 .. Len(s.report) : s.report[i] \in Statements(Subjects)
  BY <1>2
<1>5. \A i \in 1 .. Len(s.report) : s.report[i].subject \in Subjects
  BY <1>4 DEF Statements
<1>6. \A i \in 1 .. Len(Scheduled) : i \in 1 .. Len(s.report) /\ s.report[i].subject = Scheduled[i]
  BY <1>3, SettingsNumbers DEF Orderly
<1>7. Len(Scheduled) <= Len(s.report)
  <2>1. CASE Len(Scheduled) = 0
    BY <2>1, <1>3
  <2>2. CASE Len(Scheduled) # 0
    BY <2>2, <1>3, <1>6, SettingsNumbers
  <2>3. QED
    BY <2>1, <2>2
<1>8. s.station \in Nat /\ s.window \in Nat /\ s.interval \in Nat /\ s.offset \in Nat
  BY <1>1 DEF Block
<1>9. QED
  BY <1>1, <1>2, <1>3, <1>4, <1>5, <1>6, <1>7, <1>8 DEF Orderly

(* The other way round. *)
LEMMA IsOrderly ==
  ASSUME NEW s \in Block,
         Len(s.report) <= ReportMax,
         \A i, j \in 1 .. Len(s.report) : s.report[i].subject = s.report[j].subject => i = j,
         Len(Scheduled) <= Len(s.report),
         \A i \in 1 .. Len(Scheduled) : s.report[i].subject = Scheduled[i],
         InReach(s.station), WindowIsValid(s.window),
         IntervalIsValid(s.interval), IntervalIsValid(s.offset)
  PROVE  s \in Orderly
<1>1. Len(s.report) \in Nat /\ DOMAIN s.report = 1 .. Len(s.report)
  BY DEF Block
<1>2. QED
  BY <1>1, SettingsNumbers DEF Orderly

(* The defaults are in order. *)
LEMMA DefaultIsOrderly ==
  /\ Default \in Orderly
  /\ Len(Default.report) = Len(Scheduled)
<1> DEFINE R == [i \in DOMAIN Scheduled |->
                   LET r == Scheduled[i]
                   IN  Stated(r, r \in Seed.startup, IF r = Seed.status THEN Seed.period ELSE 0)]
<1>1. ASSUME NEW i \in 1 .. Len(Scheduled)
      PROVE  R[i] \in Statements(Subjects) /\ R[i].subject = Scheduled[i]
  <2>0. Seed.period \in 0 .. Top
    BY SettingsGiven DEF SettingsAssumption
  <2>1. Scheduled[i] \in Subjects
    BY SettingsNumbers
  <2>2. (IF Scheduled[i] = Seed.status THEN Seed.period ELSE 0) \in 0 .. Top
    BY <2>0, SettingsNumbers
  <2>3. (Scheduled[i] \in Seed.startup) \in BOOLEAN
    OBVIOUS
  <2>4. R[i] = Stated(Scheduled[i], Scheduled[i] \in Seed.startup,
                      IF Scheduled[i] = Seed.status THEN Seed.period ELSE 0)
    BY SettingsNumbers
  <2>5. R[i] \in Statements({Scheduled[i]}) /\ R[i].subject = Scheduled[i]
    <3> HIDE DEF R
    <3> DEFINE S == Stated(Scheduled[i], Scheduled[i] \in Seed.startup,
                           IF Scheduled[i] = Seed.status THEN Seed.period ELSE 0)
    <3>1. S \in Statements({Scheduled[i]}) /\ S.subject = Scheduled[i]
      BY <2>2 DEF Stated, Statements
    <3>2. R[i] = S
      BY <2>4
    <3> HIDE DEF S
    <3>3. QED
      BY <3>1, <3>2
  <2>6. QED
    BY <2>1, <2>5 DEF Statements
<1>2. DOMAIN R = 1 .. Len(Scheduled)
  BY SettingsNumbers
<1>3. R \in Seq(Statements(Subjects)) /\ Len(R) = Len(Scheduled)
  <2> HIDE DEF R
  <2>1. R = [i \in 1 .. Len(Scheduled) |-> R[i]]
    <3>1. R = [i \in DOMAIN Scheduled |-> R[i]]
      BY DEF R
    <3>2. QED
      BY <3>1, SettingsNumbers
  <2>2. QED
    BY <1>1, <2>1, SettingsNumbers
<1>4. Default.report = R
  BY DEF Default
<1>5. Seed.station \in Nat /\ InReach(Seed.station) /\ WindowIsValid(Seed.window)
      /\ Seed.window \in Nat /\ Seed.interval \in Nat
      /\ IntervalIsValid(Seed.interval) /\ IntervalIsValid(0)
  BY SettingsGiven, SettingsNumbers
  DEF SettingsAssumption, InReach, WindowIsValid, IntervalIsValid
<1>6. Default.station = Seed.station /\ Default.window = Seed.window
      /\ Default.interval = Seed.interval /\ Default.offset = 0
  BY DEF Default
<1>7. Default \in Block
  BY <1>3, <1>5 DEF Default, Block
<1>8. \A i, j \in 1 .. Len(Scheduled) : Scheduled[i] = Scheduled[j] => i = j
  BY SettingsGiven, SettingsNumbers DEF SettingsAssumption
<1>9. QED
  <2> HIDE DEF R
  <2>1. \A i, j \in 1 .. Len(Default.report) :
          Default.report[i].subject = Default.report[j].subject => i = j
    BY <1>1, <1>3, <1>4, <1>8
  <2>2. QED
    BY <1>1, <1>3, <1>4, <1>5, <1>6, <1>7, <2>1, SettingsNumbers, IsOrderly

-----------------------------------------------------------------------------
(* The record of a subject is found where it is. *)
LEMMA PlaceIs ==
  ASSUME NEW s \in Orderly, NEW i \in 1 .. Len(s.report)
  PROVE  /\ Found(s, s.report[i].subject)
         /\ Place(s, s.report[i].subject) = i
         /\ Current(s, s.report[i].subject) = s.report[i]
<1> DEFINE t == s.report[i].subject
<1>1. DOMAIN s.report = 1 .. Len(s.report) /\ Len(s.report) \in Nat
  BY OrderlyIs
<1>2. \A j \in 1 .. Len(s.report) : s.report[j].subject = t => j = i
  BY OrderlyIs
<1>3. Found(s, t)
  BY <1>1 DEF Found
<1>4. i \in DOMAIN s.report /\ s.report[i].subject = t
      /\ \A j \in 1 .. i - 1 : s.report[j].subject # t
  <2>1. \A j \in 1 .. i - 1 : j \in 1 .. Len(s.report) /\ j # i
    BY <1>1
  <2>2. QED
    BY <1>1, <1>2, <2>1
<1>5. Place(s, t) = i
  <2> HIDE DEF t
  <2>1. Place(s, t) \in DOMAIN s.report /\ s.report[Place(s, t)].subject = t
    BY <1>4 DEF Place
  <2>2. QED
    BY <1>1, <1>2, <2>1
<1>6. QED
  BY <1>3, <1>5 DEF Current

(* What is in force for a subject is stated by it, whether there is a record. *)
LEMMA CurrentIs ==
  ASSUME NEW s \in Orderly, NEW t
  PROVE  /\ Current(s, t) \in Statements({t})
         /\ ~Found(s, t) => Current(s, t) = Stated(t, FALSE, 0)
         /\ Found(s, t) => \E i \in 1 .. Len(s.report) : s.report[i].subject = t
         /\ AtStartup(s, t) = Current(s, t).startup
         /\ PeriodS(s, t) = IF Current(s, t).cyclic THEN Current(s, t).period ELSE 0
<1>1. CASE ~Found(s, t)
  <2>1. Current(s, t) = Stated(t, FALSE, 0)
    BY <1>1 DEF Current
  <2>2. 0 \in 0 .. Top
    BY SettingsNumbers
  <2>3. Stated(t, FALSE, 0) \in Statements({t}) /\ Stated(t, FALSE, 0).startup = FALSE
        /\ Stated(t, FALSE, 0).period = 0
    BY <2>2, SettingsNumbers DEF Stated, Statements
  <2>4. QED
    BY <1>1, <2>1, <2>3 DEF AtStartup, PeriodS
<1>2. CASE Found(s, t)
  <2>1. PICK i \in 1 .. Len(s.report) : s.report[i].subject = t
    BY <1>2, OrderlyIs DEF Found
  <2>2. Current(s, t) = s.report[i]
    BY <2>1, PlaceIs
  <2>3. s.report[i] \in Statements(Subjects)
    BY OrderlyIs
  <2>4. s.report[i] \in Statements({t}) /\ s.report[i].startup \in BOOLEAN
    BY <2>1, <2>3 DEF Statements
  <2>5. QED
    BY <1>2, <2>1, <2>2, <2>4 DEF AtStartup, PeriodS
<1>3. QED
  BY <1>1, <1>2

(* A record that may be set is, and no other subject's.                      *)
LEMMA SetGives ==
  ASSUME NEW s \in Orderly, NEW r, r \in Statements({r.subject}), Settable(s, r)
  PROVE  /\ ReportSet(s, r) \in Orderly
         /\ Current(ReportSet(s, r), r.subject) = r
         /\ \A t : t # r.subject => Current(ReportSet(s, r), t) = Current(s, t)
         /\ \A k \in Scalars : Scalar(ReportSet(s, r), k) = Scalar(s, k)
<1> DEFINE n == ReportSet(s, r)
           u == r.subject
<1>0. /\ s \in Block /\ Len(s.report) \in Nat /\ DOMAIN s.report = 1 .. Len(s.report)
      /\ s.report \in Seq(Statements(Subjects))
  BY OrderlyIs
<1>1. r \in Statements(Subjects) /\ u \in Subjects
  BY DEF Settable, Statements
<1>2. CASE Found(s, u)
  <2>1. PICK p \in 1 .. Len(s.report) : s.report[p].subject = u
    BY <1>2, CurrentIs
  <2>2. Place(s, u) = p
    BY <2>1, PlaceIs
  <2>3. n = [s EXCEPT !.report = [s.report EXCEPT ![p] = r]]
    BY <1>2, <2>2 DEF ReportSet
  <2> DEFINE m == [s.report EXCEPT ![p] = r]
  <2>4. m \in Seq(Statements(Subjects)) /\ Len(m) = Len(s.report)
        /\ \A i \in 1 .. Len(s.report) : m[i] = IF i = p THEN r ELSE s.report[i]
    BY <1>0, <1>1
  <2> HIDE DEF m
  <2>5. n \in Block /\ n.report = m
        /\ n.station = s.station /\ n.window = s.window
        /\ n.interval = s.interval /\ n.offset = s.offset
    <3>1. n = [s EXCEPT !.report = m]
      BY <2>3 DEF m
    <3>2. QED
      BY <1>0, <2>4, <3>1 DEF Block
  <2>6. \A i \in 1 .. Len(s.report) : m[i].subject = s.report[i].subject
    BY <2>1, <2>4
  <2>7. n \in Orderly
    <3> HIDE DEF n
    <3>1. \A i, j \in 1 .. Len(n.report) : n.report[i].subject = n.report[j].subject => i = j
      BY <2>4, <2>5, <2>6, OrderlyIs
    <3>2. \A i \in 1 .. Len(Scheduled) : n.report[i].subject = Scheduled[i]
      <4>1. \A i \in 1 .. Len(Scheduled) : i \in 1 .. Len(s.report)
        BY OrderlyIs, SettingsNumbers
      <4>2. QED
        BY <2>5, <2>6, <4>1, OrderlyIs
    <3>3. QED
      BY <2>4, <2>5, <3>1, <3>2, OrderlyIs, IsOrderly
  <2>8. Current(n, u) = r
    <3>1. p \in 1 .. Len(n.report) /\ n.report[p] = r
      BY <2>4, <2>5
    <3> HIDE DEF n
    <3>2. QED
      BY <2>7, <3>1, PlaceIs
  <2>9. ASSUME NEW t, t # u
        PROVE  Current(n, t) = Current(s, t)
    <3> HIDE DEF n
    <3>1. CASE \E i \in 1 .. Len(s.report) : s.report[i].subject = t
      <4>1. PICK i \in 1 .. Len(s.report) : s.report[i].subject = t
        BY <3>1
      <4>2. i # p /\ n.report[i] = s.report[i] /\ i \in 1 .. Len(n.report)
        BY <2>1, <2>4, <2>5, <2>9, <4>1
      <4>3. Current(n, t) = n.report[i] /\ Current(s, t) = s.report[i]
        BY <2>7, <4>1, <4>2, PlaceIs
      <4>4. QED
        BY <4>2, <4>3
    <3>2. CASE ~ \E i \in 1 .. Len(s.report) : s.report[i].subject = t
      <4>1. ~Found(s, t)
        BY <3>2, CurrentIs
      <4>2. ~Found(n, t)
        <5>1. Found(n, t) => \E i \in 1 .. Len(n.report) : n.report[i].subject = t
          BY <2>7, CurrentIs
        <5>2. QED
          BY <2>4, <2>5, <2>6, <3>2, <5>1
      <4>3. QED
        BY <4>1, <4>2 DEF Current
    <3>3. QED
      BY <3>1, <3>2
  <2>10. \A k \in Scalars : Scalar(n, k) = Scalar(s, k)
    BY <2>5 DEF Scalar, Scalars
  <2>11. QED
    BY <2>7, <2>8, <2>9, <2>10
<1>3. CASE ~Found(s, u)
  <2> DEFINE m == Append(s.report, r)
             l == Len(s.report) + 1
  <2>1. m \in Seq(Statements(Subjects)) /\ Len(m) = l
        /\ \A i \in 1 .. l : m[i] = IF i = l THEN r ELSE s.report[i]
    BY <1>0, <1>1
  <2>2. n = [s EXCEPT !.report = m]
    BY <1>3 DEF ReportSet
  <2>3. \A i \in 1 .. Len(s.report) : s.report[i].subject # u
    BY <1>0, <1>3 DEF Found
  <2> HIDE DEF m
  <2>5. n \in Block /\ n.report = m
        /\ n.station = s.station /\ n.window = s.window
        /\ n.interval = s.interval /\ n.offset = s.offset
    BY <1>0, <2>1, <2>2 DEF Block
  <2>6. l <= ReportMax
    BY <1>0, <1>3, SettingsNumbers DEF Settable
  <2>7. n \in Orderly
    <3> HIDE DEF n
    <3>1. \A i, j \in 1 .. Len(n.report) : n.report[i].subject = n.report[j].subject => i = j
      <4> SUFFICES ASSUME NEW i \in 1 .. l, NEW j \in 1 .. l, m[i].subject = m[j].subject
                   PROVE  i = j
        BY <2>1, <2>5
      <4>1. i = l \/ i \in 1 .. Len(s.report)
        BY <1>0
      <4>2. j = l \/ j \in 1 .. Len(s.report)
        BY <1>0
      <4>3. i \in 1 .. Len(s.report) => i # l /\ m[i] = s.report[i]
        BY <1>0, <2>1
      <4>4. j \in 1 .. Len(s.report) => j # l /\ m[j] = s.report[j]
        BY <1>0, <2>1
      <4>5. l \in 1 .. l /\ m[l] = r
        BY <1>0, <2>1
      <4>6. QED
        BY <2>3, <4>1, <4>2, <4>3, <4>4, <4>5, OrderlyIs
    <3>2. \A i \in 1 .. Len(Scheduled) : n.report[i].subject = Scheduled[i]
      <4>1. \A i \in 1 .. Len(Scheduled) : i \in 1 .. Len(s.report) /\ i \in 1 .. l /\ i # l
        BY <1>0, OrderlyIs, SettingsNumbers
      <4>2. QED
        BY <2>1, <2>5, <4>1, OrderlyIs
    <3>3. Len(Scheduled) <= Len(n.report)
      BY <1>0, <2>1, <2>5, OrderlyIs, SettingsNumbers
    <3>4. QED
      BY <2>1, <2>5, <2>6, <3>1, <3>2, <3>3, OrderlyIs, IsOrderly
  <2>8. Current(n, u) = r
    <3>1. l \in 1 .. Len(n.report) /\ n.report[l] = r
      BY <1>0, <2>1, <2>5
    <3> HIDE DEF n
    <3>2. QED
      BY <2>7, <3>1, PlaceIs
  <2>9. ASSUME NEW t, t # u
        PROVE  Current(n, t) = Current(s, t)
    <3> HIDE DEF n
    <3>0. \A i \in 1 .. Len(s.report) : i \in 1 .. Len(n.report) /\ n.report[i] = s.report[i]
      BY <1>0, <2>1, <2>5
    <3>1. CASE \E i \in 1 .. Len(s.report) : s.report[i].subject = t
      <4>1. PICK i \in 1 .. Len(s.report) : s.report[i].subject = t
        BY <3>1
      <4>2. n.report[i] = s.report[i] /\ i \in 1 .. Len(n.report)
        BY <3>0
      <4>3. Current(n, t) = n.report[i] /\ Current(s, t) = s.report[i]
        BY <2>7, <4>1, <4>2, PlaceIs
      <4>4. QED
        BY <4>2, <4>3
    <3>2. CASE ~ \E i \in 1 .. Len(s.report) : s.report[i].subject = t
      <4>1. ~Found(s, t)
        BY <3>2, CurrentIs
      <4>2. \A i \in 1 .. l : n.report[i].subject # t
        <5>1. \A i \in 1 .. l : i = l \/ i \in 1 .. Len(s.report)
          BY <1>0
        <5>2. n.report[l] = r
          BY <1>0, <2>1, <2>5
        <5>3. QED
          BY <2>9, <3>0, <3>2, <5>1, <5>2
      <4>3. ~Found(n, t)
        <5>1. Found(n, t) => \E i \in 1 .. Len(n.report) : n.report[i].subject = t
          BY <2>7, CurrentIs
        <5>2. QED
          BY <2>1, <2>5, <4>2, <5>1
      <4>4. QED
        BY <4>1, <4>3 DEF Current
    <3>3. QED
      BY <3>1, <3>2
  <2>10. \A k \in Scalars : Scalar(n, k) = Scalar(s, k)
    BY <2>5 DEF Scalar, Scalars
  <2>11. QED
    BY <2>7, <2>8, <2>9, <2>10
<1>4. QED
  BY <1>2, <1>3
-----------------------------------------------------------------------------
(* A number for a scalar is in it, and in no other. *)
LEMMA ScalarSetGives ==
  ASSUME NEW s \in Orderly, NEW k \in Scalars, NEW n \in Nat, ScalarIsValid(k, n)
  PROVE  /\ ScalarSet(s, k, n) \in Orderly
         /\ Scalar(ScalarSet(s, k, n), k) = n
         /\ \A o \in Scalars : o # k => Scalar(ScalarSet(s, k, n), o) = Scalar(s, o)
         /\ \A t : Current(ScalarSet(s, k, n), t) = Current(s, t)
<1> DEFINE m == ScalarSet(s, k, n)
<1>0. s \in Block
  BY OrderlyIs
<1>1. /\ m \in Block /\ m.report = s.report
      /\ \A o \in Scalars : Scalar(m, o) = IF o = k THEN n ELSE Scalar(s, o)
  BY <1>0 DEF ScalarSet, Scalar, Scalars, Block
<1>2. /\ InReach(m.station) /\ WindowIsValid(m.window)
      /\ IntervalIsValid(m.interval) /\ IntervalIsValid(m.offset)
  BY <1>0, OrderlyIs DEF ScalarSet, Scalars, Block, ScalarIsValid
<1>3. m \in Orderly
  <2> HIDE DEF m
  <2>1. QED
    BY <1>1, <1>2, OrderlyIs, IsOrderly
<1>4. \A t : Current(m, t) = Current(s, t)
  <2> HIDE DEF m
  <2>1. QED
    BY <1>1 DEF Current, Found, Place
<1>5. QED
  BY <1>1, <1>3, <1>4

(* A scalar's number is in range, and a range is of 16 bits. *)
LEMMA ScalarIs ==
  ASSUME NEW s \in Orderly, NEW k \in Scalars
  PROVE  /\ Scalar(s, k) \in 0 .. Top /\ ScalarIsValid(k, Scalar(s, k))
         /\ Scalar(s, k) % TextMod = Scalar(s, k)
<1>1. Scalar(s, k) \in 0 .. Top /\ ScalarIsValid(k, Scalar(s, k))
  BY OrderlyIs, SettingsNumbers
  DEF Scalar, Scalars, ScalarIsValid, InReach, WindowIsValid, IntervalIsValid
<1>2. QED
  BY <1>1, SettingsNumbers

(* The kinds of keys. *)
LEMMA KeyKinds ==
  /\ \A k \in Scalars :
       <<k>> \in Keys /\ IsScalar(<<k>>) /\ <<k>>[1] = k /\ Head(<<k>>) = k
  /\ \A t \in System, h \in Halves :
       /\ <<t, h>> \in Keys /\ ~IsScalar(<<t, h>>)
       /\ <<t, h>>[1] = t /\ <<t, h>>[2] = h /\ Head(<<t, h>>) = t
  /\ \A key \in Keys : (\E k \in Scalars : key = <<k>>) \/ (\E t \in System, h \in Halves : key = <<t, h>>)
<1>1. ASSUME NEW k \in Scalars
      PROVE  <<k>> \in Keys /\ IsScalar(<<k>>) /\ <<k>>[1] = k /\ Head(<<k>>) = k
  BY DEF Keys, IsScalar
<1>2. ASSUME NEW t \in System, NEW h \in Halves
      PROVE  /\ <<t, h>> \in Keys /\ ~IsScalar(<<t, h>>)
             /\ <<t, h>>[1] = t /\ <<t, h>>[2] = h /\ Head(<<t, h>>) = t
  <2>1. <<t, h>> \in Keys
    BY DEF Keys
  <2>2. Len(<<t, h>>) = 2 /\ Head(<<t, h>>) = t
    OBVIOUS
  <2>3. QED
    BY <2>1, <2>2 DEF IsScalar
<1>3. ASSUME NEW key \in Keys
      PROVE  (\E k \in Scalars : key = <<k>>) \/ (\E t \in System, h \in Halves : key = <<t, h>>)
  BY DEF Keys
<1>4. QED
  BY <1>1, <1>2, <1>3

(* What a key means. *)
LEMMA MeaningIs ==
  ASSUME NEW s \in Orderly
  PROVE  /\ \A k \in Scalars : Meaning(s, <<k>>) = Scalar(s, k)
         /\ \A t \in System :
              /\ Meaning(s, <<t, "at-startup">>) = IF Current(s, t).startup THEN 1 ELSE 0
              /\ Meaning(s, <<t, "period-s">>) =
                   IF Current(s, t).cyclic THEN Current(s, t).period ELSE 0
<1>1. ASSUME NEW t \in System
      PROVE  /\ Meaning(s, <<t, "at-startup">>) = IF Current(s, t).startup THEN 1 ELSE 0
             /\ Meaning(s, <<t, "period-s">>) =
                  IF Current(s, t).cyclic THEN Current(s, t).period ELSE 0
  <2>1. Meaning(s, <<t, "at-startup">>) = IF AtStartup(s, t) THEN 1 ELSE 0
    BY KeyKinds DEF Meaning, Halves
  <2>2. Meaning(s, <<t, "period-s">>) = PeriodS(s, t)
    BY KeyKinds DEF Meaning, Halves
  <2>3. AtStartup(s, t) = Current(s, t).startup
    BY CurrentIs
  <2>4. QED
    BY <2>1, <2>2, <2>3, CurrentIs
<1>2. \A k \in Scalars : Meaning(s, <<k>>) = Scalar(s, k)
  BY KeyKinds DEF Meaning
<1>3. QED
  BY <1>1, <1>2

(* Blocks that agree on what is set agree on what the keys mean.             *)
LEMMA SameMeaning ==
  ASSUME NEW s \in Orderly, NEW n \in Orderly, NEW key \in Keys,
         IsScalar(key) => Scalar(n, key[1]) = Scalar(s, key[1]),
         ~IsScalar(key) => Current(n, key[1]) = Current(s, key[1])
  PROVE  Meaning(n, key) = Meaning(s, key)
<1>1. CASE \E k \in Scalars : key = <<k>>
  BY <1>1, KeyKinds, MeaningIs
<1>2. CASE \E t \in System, h \in Halves : key = <<t, h>>
  <2>1. PICK t \in System, h \in Halves : key = <<t, h>>
    BY <1>2
  <2>2. Current(n, t) = Current(s, t)
    BY <2>1, KeyKinds
  <2>3. CASE h = "at-startup"
    BY <2>1, <2>2, <2>3, MeaningIs
  <2>4. CASE h = "period-s"
    BY <2>1, <2>2, <2>4, MeaningIs
  <2>5. QED
    BY <2>3, <2>4 DEF Halves
<1>3. QED
  BY <1>1, <1>2, KeyKinds
-----------------------------------------------------------------------------
\* What a text says.
Says(text) == IF text.word = "on" THEN 1 ELSE IF text.word \in {"off", "never"} THEN 0 ELSE text.n

AllTexts == {Say(word) : word \in {"on", "off", "never", "junk"}} \union {Number(i) : i \in Nat}

(* A text that is a number below the word is that number. *)
LEMMA TextIs ==
  ASSUME NEW text \in AllTexts
  PROVE  /\ text.n \in Nat /\ A2u(text) \in Nat
         /\ text.n < TextMod => A2u(text) = text.n
         /\ text.word = "number" => text = Number(text.n)
         /\ text.word # "number" => text.n = 0
<1>1. CASE text \in {Say(word) : word \in {"on", "off", "never", "junk"}}
  <2>1. text.n = 0 /\ text.word # "number"
    BY <1>1 DEF Say
  <2>2. QED
    BY <2>1, SettingsNumbers DEF A2u
<1>2. CASE text \in {Number(i) : i \in Nat}
  <2>1. PICK i \in Nat : text = Number(i)
    BY <1>2
  <2>2. text.n = i /\ text.word = "number"
    BY <2>1 DEF Number
  <2>3. i % TextMod \in Nat /\ (i < TextMod => i % TextMod = i)
    BY SettingsNumbers
  <2>4. QED
    BY <2>1, <2>2, <2>3 DEF A2u
<1>3. QED
  BY <1>1, <1>2 DEF AllTexts

(* A text that may be written to a key gives a block in order, in which the  *)
(* key means what the text says and every other key what it did.            *)
LEMMA WriteMeans ==
  ASSUME NEW s \in Orderly, NEW key \in Keys, NEW text \in AllTexts, Writable(s, key, text)
  PROVE  /\ KeyWrite(s, key, text) \in Orderly
         /\ text.n < TextMod => Meaning(KeyWrite(s, key, text), key) = Says(text)
         /\ \A other \in Keys \ {key} : Meaning(KeyWrite(s, key, text), other) = Meaning(s, other)
<1> DEFINE n == KeyWrite(s, key, text)
<1>1. CASE \E k \in Scalars : key = <<k>>
  <2>1. PICK k \in Scalars : key = <<k>>
    BY <1>1
  <2>2. IsScalar(key) /\ key[1] = k
    BY <2>1, KeyKinds
  <2>3. IsNumber(text) /\ ScalarIsValid(k, A2u(text)) /\ n = ScalarSet(s, k, A2u(text))
    BY <2>2 DEF Writable, KeyWrite
  <2>4. A2u(text) \in Nat
    BY TextIs
  <2>5. /\ n \in Orderly /\ Scalar(n, k) = A2u(text)
        /\ \A o \in Scalars : o # k => Scalar(n, o) = Scalar(s, o)
        /\ \A t : Current(n, t) = Current(s, t)
    BY <2>3, <2>4, ScalarSetGives
  <2> HIDE DEF n
  <2>6. text.n < TextMod => Meaning(n, key) = Says(text)
    <3>1. Meaning(n, key) = A2u(text)
      BY <2>1, <2>5, MeaningIs
    <3>2. text.word = "number"
      BY <2>3 DEF IsNumber
    <3>3. QED
      BY <3>1, <3>2, TextIs DEF Says
  <2>7. ASSUME NEW other \in Keys \ {key}
        PROVE  Meaning(n, other) = Meaning(s, other)
    <3>1. IsScalar(other) => Scalar(n, other[1]) = Scalar(s, other[1])
      <4>1. ASSUME NEW o \in Scalars, other = <<o>>
            PROVE  Scalar(n, other[1]) = Scalar(s, other[1])
        <5>1. o # k /\ other[1] = o
          BY <2>1, <4>1
        <5>2. QED
          BY <2>5, <5>1
      <4>2. QED
        BY <4>1, KeyKinds
    <3>2. Current(n, other[1]) = Current(s, other[1])
      BY <2>5
    <3>3. QED
      BY <2>5, <3>1, <3>2, SameMeaning
  <2>8. QED
    BY <2>5, <2>6, <2>7 DEF n
<1>2. CASE \E t \in System, h \in Halves : key = <<t, h>>
  <2>1. PICK t \in System, h \in Halves : key = <<t, h>>
    BY <1>2
  <2>2. ~IsScalar(key) /\ key[1] = t /\ key[2] = h
    BY <2>1, KeyKinds
  <2> DEFINE c == Current(s, t)
             w == IF text.word = "number" THEN A2u(text) ELSE 0
             r == IF h = "at-startup" THEN Startup(c, text) ELSE Cadence(c, w)
  <2>3. c \in Statements({t}) /\ c.subject = t
    BY CurrentIs DEF Statements
  <2>4. Settable(s, c) /\ n = ReportSet(s, r)
    <3>1. CASE h = "at-startup"
      BY <2>2, <3>1 DEF Writable, KeyWrite
    <3>2. CASE h = "period-s"
      BY <2>2, <3>2 DEF Writable, KeyWrite
    <3>3. QED
      BY <3>1, <3>2 DEF Halves
  <2>5. h = "period-s" => w \in 0 .. Top
    <3> SUFFICES ASSUME h = "period-s" PROVE w \in 0 .. Top
      OBVIOUS
    <3>1. text.word \in {"never", "off"} \/ IsNumber(text)
      BY <2>2 DEF Writable
    <3>2. QED
      BY <3>1, TextIs, SettingsNumbers DEF IsNumber
  <2>6. h = "at-startup" =>
          /\ Yes(text) \/ No(text)
          /\ r \in Statements({t}) /\ r.subject = t /\ r.startup = Yes(text)
          /\ r.cyclic = c.cyclic /\ r.period = c.period
    <3>1. h = "at-startup" => Yes(text) \/ No(text)
      BY <2>2 DEF Writable
    <3>2. Yes(text) \in BOOLEAN
      BY DEF Yes
    <3> HIDE DEF c
    <3>3. QED
      BY <2>3, <3>1, <3>2 DEF Startup, Statements
  <2>7. h = "period-s" =>
          /\ r \in Statements({t}) /\ r.subject = t
          /\ r.period = w /\ r.cyclic = (w > 0) /\ r.startup = c.startup
    <3> SUFFICES ASSUME h = "period-s"
                 PROVE  /\ r \in Statements({t}) /\ r.subject = t
                        /\ r.period = w /\ r.cyclic = (w > 0) /\ r.startup = c.startup
      OBVIOUS
    <3> DEFINE d == Cadence(c, w)
    <3> HIDE DEF c, w
    <3>1. d \in Statements({t})
      <4>0. (w > 0) \in BOOLEAN
        OBVIOUS
      <4>1. PICK b \in BOOLEAN : b = (w > 0)
        BY <4>0, Zenon
      <4>5. d = [c EXCEPT !.period = w, !.cyclic = b]
        BY <4>1, Zenon DEF Cadence
      <4>6. [c EXCEPT !.period = w, !.cyclic = b] \in Statements({t})
        BY <2>3, <2>5 DEF Statements
      <4>4. QED
        BY <4>5, <4>6, Zenon
    <3>2. d.subject = t /\ d.period = w /\ d.startup = c.startup
      BY <2>3 DEF Cadence, Statements
    <3>3. d.cyclic = (w > 0)
      BY <2>3 DEF Cadence, Statements
    <3>4. r = d
      BY DEF r
    <3> HIDE DEF r, d
    <3>5. QED
      BY <3>1, <3>2, <3>3, <3>4
  <2>8. h \in {"at-startup", "period-s"}
    BY DEF Halves
  <2>9. r \in Statements({r.subject}) /\ r.subject = t /\ Settable(s, r)
    <3> HIDE DEF c, r
    <3>1. r \in Statements({t}) /\ r.subject = t
      BY <2>6, <2>7, <2>8
    <3>2. QED
      BY <2>3, <2>4, <3>1 DEF Settable
  <2> HIDE DEF c, r, w, n
  <2>10. /\ n \in Orderly /\ Current(n, t) = r
         /\ \A o : o # t => Current(n, o) = Current(s, o)
         /\ \A k \in Scalars : Scalar(n, k) = Scalar(s, k)
    BY <2>4, <2>9, SetGives
  <2>11. text.n < TextMod => Meaning(n, key) = Says(text)
    <3>1. CASE h = "at-startup"
      <4>1. Meaning(n, key) = IF Yes(text) THEN 1 ELSE 0
        BY <2>1, <2>6, <2>10, <3>1, MeaningIs
      <4>2. Yes(text) => Says(text) = 1
        BY DEF Yes, Says, Number
      <4>3. No(text) => Says(text) = 0 /\ ~Yes(text)
        BY DEF No, Yes, Says, Number
      <4>4. QED
        BY <2>6, <3>1, <4>1, <4>2, <4>3
    <3>2. CASE h = "period-s"
      <4>1. Meaning(n, key) = IF w > 0 THEN w ELSE 0
        BY <2>1, <2>7, <2>10, <3>2, MeaningIs
      <4>2. w \in Nat
        BY <2>5, <3>2, SettingsNumbers
      <4>3. text.word \in {"never", "off", "number"}
        BY <2>2, <3>2 DEF Writable, IsNumber
      <4>4. text.n < TextMod => w = Says(text)
        BY <4>3, TextIs DEF Says, w
      <4>5. QED
        BY <4>1, <4>2, <4>4
    <3>3. QED
      BY <2>8, <3>1, <3>2
  <2>12. ASSUME NEW other \in Keys \ {key}
         PROVE  Meaning(n, other) = Meaning(s, other)
    <3>1. CASE \E k \in Scalars : other = <<k>>
      <4>1. PICK k \in Scalars : other = <<k>>
        BY <3>1
      <4>2. QED
        BY <2>10, <4>1, MeaningIs
    <3>2. CASE \E o \in System, g \in Halves : other = <<o, g>>
      <4>1. PICK o \in System, g \in Halves : other = <<o, g>>
        BY <3>2
      <4>2. CASE o # t
        BY <2>10, <4>1, <4>2, KeyKinds, SameMeaning
      <4>3. CASE o = t
        <5>1. g # h
          BY <2>1, <4>1, <4>3
        <5>2. CASE g = "at-startup"
          BY <2>7, <2>8, <2>10, <4>1, <4>3, <5>1, <5>2, MeaningIs DEF c
        <5>3. CASE g = "period-s"
          BY <2>6, <2>8, <2>10, <4>1, <4>3, <5>1, <5>3, MeaningIs DEF c
        <5>4. QED
          BY <5>2, <5>3 DEF Halves
      <4>4. QED
        BY <4>2, <4>3
    <3>3. QED
      BY <3>1, <3>2, KeyKinds
  <2>13. QED
    BY <2>10, <2>11, <2>12 DEF n
<1>3. QED
  BY <1>1, <1>2, KeyKinds

(* What a key reads as may be written back and means the same. *)
LEMMA ReadsAreWritten ==
  ASSUME NEW s \in Orderly, NEW key \in Keys
  PROVE  /\ KeyRead(s, key) \in AllTexts /\ Writable(s, key, KeyRead(s, key))
         /\ KeyRead(s, key).n < TextMod
         /\ Says(KeyRead(s, key)) = Meaning(s, key)
<1>1. CASE \E k \in Scalars : key = <<k>>
  <2>1. PICK k \in Scalars : key = <<k>>
    BY <1>1
  <2>2. IsScalar(key) /\ key[1] = k
    BY <2>1, KeyKinds
  <2> DEFINE v == Scalar(s, k)
  <2>3. KeyRead(s, key) = Number(v)
    BY <2>2 DEF KeyRead
  <2>4. v \in 0 .. Top /\ ScalarIsValid(k, v) /\ v % TextMod = v
    BY ScalarIs
  <2>5. Meaning(s, key) = v
    BY <2>1, MeaningIs
  <2> HIDE DEF v
  <2>6. Number(v).n = v /\ Number(v).word = "number"
    BY DEF Number
  <2>7. Number(v) \in AllTexts /\ v < TextMod
    BY <2>4, SettingsNumbers DEF AllTexts
  <2>8. A2u(Number(v)) = v
    BY <2>4, <2>6 DEF A2u
  <2>9. Writable(s, key, Number(v))
    BY <2>2, <2>4, <2>6, <2>8, SettingsNumbers DEF Writable, IsNumber
  <2>10. QED
    BY <2>3, <2>5, <2>6, <2>7, <2>9 DEF Says
<1>2. CASE \E t \in System, h \in Halves : key = <<t, h>>
  <2>1. PICK t \in System, h \in Halves : key = <<t, h>>
    BY <1>2
  <2>2. ~IsScalar(key) /\ key[1] = t /\ key[2] = h
    BY <2>1, KeyKinds
  <2> DEFINE c == Current(s, t)
  <2>3. c \in Statements({t}) /\ c.startup \in BOOLEAN /\ c.cyclic \in BOOLEAN
        /\ c.period \in 0 .. Top /\ c.subject = t
    BY CurrentIs DEF Statements
  <2>4. Settable(s, c)
    <3>1. t \in Subjects
      BY SettingsNumbers
    <3>2. PICK i \in 1 .. Len(Scheduled) : Scheduled[i] = t
      BY SettingsNumbers DEF System
    <3>3. i \in 1 .. Len(s.report) /\ s.report[i].subject = t
      BY <3>2, OrderlyIs, SettingsNumbers
    <3>4. Found(s, t)
      BY <3>3, PlaceIs
    <3>5. QED
      BY <2>3, <3>1, <3>4 DEF Settable
  <2>5. CASE h = "at-startup"
    <3>1. KeyRead(s, key) = Say(IF c.startup THEN "on" ELSE "off")
      BY <2>2, <2>5 DEF KeyRead
    <3>2. Meaning(s, key) = IF c.startup THEN 1 ELSE 0
      BY <2>1, <2>5, MeaningIs
    <3> HIDE DEF c
    <3>3. ASSUME NEW word \in {"on", "off"}
          PROVE  /\ Say(word) \in AllTexts /\ Say(word).n < TextMod
                 /\ Writable(s, key, Say(word))
                 /\ Says(Say(word)) = IF word = "on" THEN 1 ELSE 0
      <4>1. Say(word).word = word /\ Say(word).n = 0
        BY DEF Say
      <4>2. Say(word) \in AllTexts /\ 0 < TextMod
        BY SettingsNumbers DEF AllTexts
      <4>3. Yes(Say(word)) \/ No(Say(word))
        BY <4>1 DEF Yes, No
      <4>4. Writable(s, key, Say(word))
        BY <2>2, <2>4, <2>5, <4>3 DEF Writable, c
      <4>5. QED
        BY <4>1, <4>2, <4>4 DEF Says
    <3>4. QED
      BY <2>3, <3>1, <3>2, <3>3
  <2>6. CASE h = "period-s"
    <3>1. KeyRead(s, key) = IF c.cyclic THEN Number(c.period) ELSE Say("never")
      BY <2>2, <2>6 DEF KeyRead
    <3>2. Meaning(s, key) = IF c.cyclic THEN c.period ELSE 0
      BY <2>1, <2>6, MeaningIs
    <3> DEFINE v == c.period
    <3>3. Say("never") \in AllTexts /\ Say("never").n = 0 /\ 0 < TextMod /\ Says(Say("never")) = 0
      BY SettingsNumbers DEF AllTexts, Say, Says
    <3>4. Writable(s, key, Say("never"))
      BY <2>2, <2>4, <2>6 DEF Writable, Say
    <3>5. v \in Nat /\ v <= Top /\ v < TextMod /\ v % TextMod = v
      BY <2>3, SettingsNumbers
    <3> HIDE DEF v
    <3>6. Number(v).word = "number" /\ Number(v).n = v /\ Number(v) \in AllTexts
      BY <3>5 DEF Number, AllTexts
    <3>7. Says(Number(v)) = v /\ IsNumber(Number(v))
      BY <3>5, <3>6 DEF Says, IsNumber, A2u
    <3>8. Writable(s, key, Number(v))
      BY <2>2, <2>4, <2>6, <3>7 DEF Writable
    <3>9. CASE c.cyclic
      BY <3>1, <3>2, <3>5, <3>6, <3>7, <3>8, <3>9 DEF v
    <3>10. CASE ~c.cyclic
      BY <3>1, <3>2, <3>3, <3>4, <3>10
    <3>11. QED
      BY <3>9, <3>10
  <2>7. QED
    BY <2>5, <2>6 DEF Halves
<1>3. QED
  BY <1>1, <1>2, KeyKinds
-----------------------------------------------------------------------------
(* What each pair of a packet takes from one set to the next, the packet     *)
(* takes from the first to the last.                                         *)
LEMMA PairsReach ==
  ASSUME NEW s, NEW kv, Len(kv) \in Nat, NEW T, s \in T[0],
         \A i \in 1 .. Len(kv) : \A b \in T[i - 1] : ApplyPair(b, kv[i]) \in T[i]
  PROVE  ApplyPairs(s, kv) \in T[Len(kv)]
<1> DEFINE n == Len(kv)
           U == UNION {T[i] : i \in 0 .. n}
           Is(f) == f = [i \in 0 .. n |-> IF i = 0 THEN s ELSE ApplyPair(f[i - 1], kv[i])]
           step == [p \in (1 .. n) \X U |-> ApplyPair(p[2], kv[p[1]])]
<1>0. n \in Nat
  OBVIOUS
<1>1. \A i \in 1 .. n : \A b \in T[i - 1] :
        /\ step[<<i, b>>] = ApplyPair(b, kv[i])
        /\ step[<<i, b>>] \in T[i]
  <2> SUFFICES ASSUME NEW i \in 1 .. n, NEW b \in T[i - 1]
               PROVE  step[<<i, b>>] = ApplyPair(b, kv[i]) /\ step[<<i, b>>] \in T[i]
    OBVIOUS
  <2>1. i - 1 \in 0 .. n
    BY <1>0
  <2>2. <<i, b>> \in (1 .. n) \X U
    BY <2>1
  <2>3. step[<<i, b>>] = ApplyPair(b, kv[i])
    BY <2>2
  <2>4. QED
    BY <2>3
<1> HIDE DEF n, step, U
<1>3. s \in T[0] /\ Leads(n, T, step)
  BY <1>0, <1>1 DEF Leads
<1>4. PICK f : /\ f = [i \in 0 .. n |-> f[i]]
               /\ Walks(f, n, s, step)
               /\ \A i \in 0 .. n : f[i] \in T[i]
  BY <1>0, <1>3, WalkReaches, Zenon
<1>5. f[0] = s /\ \A i \in 1 .. n : f[i] = step[<<i, f[i - 1]>>] /\ f[i - 1] \in T[i - 1]
  <2>1. \A i \in 1 .. n : i - 1 \in 0 .. n
    BY <1>0
  <2>2. QED
    BY <1>4, <2>1 DEF Walks
<1>6. \A i \in 0 .. n : f[i] = IF i = 0 THEN s ELSE ApplyPair(f[i - 1], kv[i])
  <2>1. \A i \in 0 .. n : i # 0 => i \in 1 .. n
    BY <1>0
  <2>2. QED
    BY <1>1, <1>5, <2>1, Zenon
<1>7. Is(f)
  BY <1>4, <1>6
<1> DEFINE g == CHOOSE h : Is(h)
<1>8. Is(g) /\ ApplyPairs(s, kv) = g[n]
  BY <1>7 DEF ApplyPairs, n
<1> HIDE DEF g
<1>9. g[0] = s /\ \A i \in 1 .. n : g[i] = ApplyPair(g[i - 1], kv[i])
  <2>1. 0 \in 0 .. n /\ \A i \in 1 .. n : i \in 0 .. n /\ i # 0
    BY <1>0
  <2>2. \A i \in 0 .. n : g[i] = IF i = 0 THEN s ELSE ApplyPair(g[i - 1], kv[i])
    BY <1>8, Zenon
  <2>3. QED
    BY <2>1, <2>2, Zenon
<1> DEFINE Q == {i \in 0 .. n : g[i] \in T[i]}
<1>10. 0 \in Q
  BY <1>0, <1>9
<1>11. ASSUME NEW i \in 1 .. n, i - 1 \in Q
       PROVE  i \in Q
  <2>1. g[i] = ApplyPair(g[i - 1], kv[i]) /\ g[i - 1] \in T[i - 1]
    BY <1>9, <1>11
  <2>2. g[i] \in T[i]
    BY <2>1 DEF n
  <2>3. QED
    BY <2>2
<1> HIDE DEF Q
<1>12. \A i \in 0 .. n : i \in Q
  BY <1>0, <1>10, <1>11, CountingUp
<1>13. n \in Q
  BY <1>0, <1>12
<1>14. QED
  BY <1>8, <1>13 DEF Q, n

(* What is pinned. *)
Stays(s, n) == \A key \in Keys : IsPinned(key) => Meaning(n, key) = Meaning(s, key)

LEMMA StaysOn ==
  ASSUME NEW s, NEW m, NEW n, Stays(s, m), Stays(m, n)
  PROVE  Stays(s, n)
BY DEF Stays

(* A field that comes over the air is taken if it is valid and not pinned.   *)
LEMMA AcceptedKeeps ==
  ASSUME NEW s \in Orderly, NEW k \in Scalars, NEW n \in 0 .. Top
  PROVE  Accepted(s, k, n) \in Orderly /\ Stays(s, Accepted(s, k, n))
<1>1. CASE ScalarIsValid(k, n) /\ ~IsPinned(<<k>>)
  <2>1. Accepted(s, k, n) = ScalarSet(s, k, n) /\ n \in Nat
    BY <1>1, SettingsNumbers DEF Accepted
  <2> DEFINE m == Accepted(s, k, n)
  <2>2. /\ m \in Orderly
        /\ \A o \in Scalars : o # k => Scalar(m, o) = Scalar(s, o)
        /\ \A t : Current(m, t) = Current(s, t)
    BY <1>1, <2>1, ScalarSetGives
  <2> HIDE DEF m
  <2>3. ASSUME NEW key \in Keys, IsPinned(key)
        PROVE  Meaning(m, key) = Meaning(s, key)
    <3>1. IsScalar(key) => Scalar(m, key[1]) = Scalar(s, key[1])
      <4>1. ASSUME NEW o \in Scalars, key = <<o>>
            PROVE  Scalar(m, key[1]) = Scalar(s, key[1])
        <5>1. o # k /\ key[1] = o
          BY <1>1, <2>3, <4>1
        <5>2. QED
          BY <2>2, <5>1
      <4>2. QED
        BY <4>1, KeyKinds
    <3>2. QED
      BY <2>2, <3>1, SameMeaning
  <2>4. QED
    BY <2>2, <2>3 DEF Stays, m
<1>2. CASE ~(ScalarIsValid(k, n) /\ ~IsPinned(<<k>>))
  BY <1>2 DEF Accepted, Stays
<1>3. QED
  BY <1>1, <1>2

\* The pairs a packet has.
IsPair(pair) ==
  /\ pair.key = "station" => pair.nums[1] \in 0 .. Top
  /\ pair.key = "receive" => \A k \in 1 .. 3 : pair.nums[k] \in 0 .. Top
  /\ pair.key = "report" => pair.record \in Statements({pair.record.subject})

(* A pair leaves the block in order and what is pinned as it is.             *)
LEMMA PairKeeps ==
  ASSUME NEW s \in Orderly, NEW pair, IsPair(pair)
  PROVE  ApplyPair(s, pair) \in Orderly /\ Stays(s, ApplyPair(s, pair))
<1>0. Stays(s, s)
  BY DEF Stays
<1>1. CASE pair.key = "station"
  <2>1. pair.nums[1] \in 0 .. Top /\ "station" \in Scalars
    BY <1>1 DEF IsPair, Scalars
  <2>2. ApplyPair(s, pair) = Accepted(s, "station", pair.nums[1])
    BY <1>1 DEF ApplyPair
  <2>3. QED
    BY <2>1, <2>2, AcceptedKeeps
<1>2. CASE pair.key = "receive"
  <2> DEFINE a == Accepted(s, "window-s", pair.nums[1])
             b == Accepted(a, "interval-m", pair.nums[2])
             c == Accepted(b, "offset-m", pair.nums[3])
  <2>1. /\ pair.nums[1] \in 0 .. Top /\ pair.nums[2] \in 0 .. Top /\ pair.nums[3] \in 0 .. Top
        /\ "window-s" \in Scalars /\ "interval-m" \in Scalars /\ "offset-m" \in Scalars
    BY <1>2 DEF IsPair, Scalars
  <2>2. ApplyPair(s, pair) = c
    BY <1>2 DEF ApplyPair
  <2>3. a \in Orderly /\ Stays(s, a)
    BY <2>1, AcceptedKeeps
  <2> HIDE DEF a
  <2>4. b \in Orderly /\ Stays(a, b)
    BY <2>1, <2>3, AcceptedKeeps
  <2> HIDE DEF b
  <2>5. c \in Orderly /\ Stays(b, c)
    BY <2>1, <2>4, AcceptedKeeps
  <2> HIDE DEF c
  <2>6. QED
    BY <2>2, <2>3, <2>4, <2>5, StaysOn
<1>3. CASE pair.key = "report"
  <2> DEFINE r == pair.record
  <2>1. r \in Statements({r.subject})
    BY <1>3 DEF IsPair
  <2>2. CASE ~IsPinned(<<r.subject>>) /\ Settable(s, r)
    <3> DEFINE n == ReportSet(s, r)
    <3>1. ApplyPair(s, pair) = n
      BY <1>3, <2>2 DEF ApplyPair
    <3>2. /\ n \in Orderly
          /\ \A t : t # r.subject => Current(n, t) = Current(s, t)
          /\ \A k \in Scalars : Scalar(n, k) = Scalar(s, k)
      BY <2>1, <2>2, SetGives
    <3> HIDE DEF n
    <3>3. r.subject \notin pins
      BY <2>2 DEF IsPinned
    <3> HIDE DEF r
    <3>4. ASSUME NEW key \in Keys, IsPinned(key)
          PROVE  Meaning(n, key) = Meaning(s, key)
      <4>1. IsScalar(key) => Scalar(n, key[1]) = Scalar(s, key[1])
        BY <3>2, KeyKinds
      <4>2. ~IsScalar(key) => Current(n, key[1]) = Current(s, key[1])
        <5>1. ASSUME NEW t \in System, NEW h \in Halves, key = <<t, h>>
              PROVE  Current(n, key[1]) = Current(s, key[1])
          <6>1. key[1] = t /\ t \in pins
            BY <3>4, <5>1, KeyKinds DEF IsPinned
          <6>2. QED
            BY <3>2, <3>3, <6>1
        <5>2. QED
          BY <5>1, KeyKinds
      <4>3. QED
        BY <3>2, <4>1, <4>2, SameMeaning
    <3>5. QED
      BY <3>1, <3>2, <3>4 DEF Stays
  <2>3. CASE ~(~IsPinned(<<r.subject>>) /\ Settable(s, r))
    BY <1>0, <1>3, <2>3 DEF ApplyPair
  <2>4. QED
    BY <2>2, <2>3
<1>4. CASE pair.key \notin {"station", "receive", "report"}
  BY <1>0, <1>4 DEF ApplyPair
<1>5. QED
  BY <1>1, <1>2, <1>3, <1>4

(* So does a packet. *)
LEMMA PacketKeeps ==
  ASSUME NEW s \in Orderly, NEW kv \in Packets
  PROVE  ApplyPairs(s, kv) \in Orderly /\ Stays(s, ApplyPairs(s, kv))
<1> DEFINE O == {b \in Orderly : Stays(s, b)}
           T == [i \in 0 .. Len(kv) |-> O]
<1>1. Len(kv) \in Nat /\ \A i \in 1 .. Len(kv) : IsPair(kv[i])
  BY SettingsGiven DEF SettingsAssumption, IsPair
<1>2. s \in O
  BY DEF Stays
<1>3. \A b \in O : \A pair : IsPair(pair) => ApplyPair(b, pair) \in O
  <2> SUFFICES ASSUME NEW b \in O, NEW pair, IsPair(pair)
               PROVE  ApplyPair(b, pair) \in O
    OBVIOUS
  <2>1. b \in Orderly /\ Stays(s, b)
    OBVIOUS
  <2>2. ApplyPair(b, pair) \in Orderly /\ Stays(b, ApplyPair(b, pair))
    BY <2>1, PairKeeps
  <2>3. QED
    BY <2>1, <2>2, StaysOn
<1>4. \A i \in 0 .. Len(kv) : T[i] = O
  OBVIOUS
<1>5. \A i \in 1 .. Len(kv) : i - 1 \in 0 .. Len(kv) /\ i \in 0 .. Len(kv)
  BY <1>1
<1>6. Len(kv) \in 0 .. Len(kv) /\ 0 \in 0 .. Len(kv)
  BY <1>1
<1> HIDE DEF T, O
<1>7. s \in T[0]
  BY <1>2, <1>4, <1>6
<1>8. \A i \in 1 .. Len(kv) : \A b \in T[i - 1] : ApplyPair(b, kv[i]) \in T[i]
  BY <1>1, <1>3, <1>4, <1>5
<1>9. ApplyPairs(s, kv) \in T[Len(kv)]
  BY <1>1, <1>7, <1>8, PairsReach
<1>10. QED
  BY <1>4, <1>6, <1>9 DEF O
-----------------------------------------------------------------------------
(* What a node reports of its settings: its station, its records in their    *)
(* order, its windows.                                                       *)
LEMMA PackIs ==
  ASSUME NEW s \in Orderly
  PROVE  LET l == Len(s.report) IN
         /\ Len(Pack(s)) = l + 2
         /\ Pack(s)[1] = Pair("station", <<s.station>>, NoRecord)
         /\ \A i \in 1 .. l : Pack(s)[i + 1] = Pair("report", <<>>, s.report[i])
         /\ Pack(s)[l + 2] = Pair("receive", <<s.window, s.interval, s.offset>>, NoRecord)
<1> DEFINE l == Len(s.report)
           A == Pair("station", <<s.station>>, NoRecord)
           B == [i \in DOMAIN s.report |-> Pair("report", <<>>, s.report[i])]
           C == Pair("receive", <<s.window, s.interval, s.offset>>, NoRecord)
           S == {A, C} \union {B[i] : i \in 1 .. l}
<1>1. l \in Nat /\ DOMAIN s.report = 1 .. l
  BY OrderlyIs
<1>2. B \in Seq(S) /\ Len(B) = l /\ \A i \in 1 .. l : B[i] = Pair("report", <<>>, s.report[i])
  <2>1. B = [i \in 1 .. l |-> B[i]] /\ \A i \in 1 .. l : B[i] = Pair("report", <<>>, s.report[i])
    BY <1>1
  <2>2. \A i \in 1 .. l : B[i] \in S
    OBVIOUS
  <2> HIDE DEF B, S, l
  <2>3. QED
    BY <1>1, <2>1, <2>2
<1>3. A \in S /\ C \in S
  OBVIOUS
<1>4. Pack(s) = <<A>> \o B \o <<C>>
  BY DEF Pack
<1> HIDE DEF A, B, C, S, l
<1>5. /\ <<A>> \o B \in Seq(S) /\ Len(<<A>> \o B) = l + 1
      /\ (<<A>> \o B)[1] = A /\ \A i \in 1 .. l : (<<A>> \o B)[i + 1] = B[i]
  BY <1>1, <1>2, <1>3
<1> DEFINE D == <<A>> \o B
<1>6. /\ Len(D \o <<C>>) = l + 2 /\ (D \o <<C>>)[l + 2] = C
      /\ \A i \in 1 .. l + 1 : (D \o <<C>>)[i] = D[i]
  <2> HIDE DEF D
  <2>1. D \in Seq(S) /\ Len(D) = l + 1
    BY <1>5 DEF D
  <2>2. QED
    BY <1>1, <1>3, <2>1
<1>7. 1 \in 1 .. l + 1 /\ \A i \in 1 .. l : i + 1 \in 1 .. l + 1
  BY <1>1
<1>8. /\ Pack(s)[1] = A
      /\ \A i \in 1 .. l : Pack(s)[i + 1] = B[i]
      /\ Len(Pack(s)) = l + 2 /\ Pack(s)[l + 2] = C
  BY <1>4, <1>5, <1>6, <1>7
<1>9. QED
  BY <1>2, <1>8 DEF A, C, l

(* A block is what it has. *)
LEMMA SameBlock ==
  ASSUME NEW s \in Block, NEW b \in Block,
         b.station = s.station, b.window = s.window, b.interval = s.interval,
         b.offset = s.offset, Len(b.report) = Len(s.report),
         \A i \in 1 .. Len(s.report) : b.report[i] = s.report[i]
  PROVE  b = s
<1>1. b.report \in Seq(Statements(Subjects)) /\ s.report \in Seq(Statements(Subjects))
  BY DEF Block
<1>2. b.report = s.report
  BY <1>1
<1>3. QED
  BY <1>2 DEF Block

(* And what it reports makes another node the same: the records come to      *)
(* their places one after the other, the seeded ones where a seeded one is.  *)
LEMMA PackBack ==
  ASSUME NEW s \in Orderly, pins = {}
  PROVE  ApplyPairs(Default, Pack(s)) = s
<1> DEFINE l == Len(s.report)
           d == Len(Scheduled)
           Size(i) == IF i < d THEN d ELSE i
           Upto(i) == {b \in Orderly :
                         /\ b.station = s.station /\ Len(b.report) = Size(i)
                         /\ \A j \in 1 .. i : b.report[j] = s.report[j]}
           T == [i \in 0 .. l + 2 |-> IF i = 0 THEN {Default}
                                      ELSE IF i = l + 2 THEN {s} ELSE Upto(i - 1)]
<1>0. l \in Nat /\ d \in Nat /\ d <= l
  BY OrderlyIs, SettingsNumbers
<1>a. T[0] = {Default} /\ T[l + 2] = {s} /\ \A i \in 1 .. l + 1 : T[i] = Upto(i - 1)
  <2> HIDE DEF Upto, l
  <2>1. 0 \in 0 .. l + 2 /\ l + 2 \in 0 .. l + 2 /\ l + 2 # 0
        /\ \A i \in 1 .. l + 1 : i \in 0 .. l + 2 /\ i # 0 /\ i # l + 2
    BY <1>0
  <2>2. QED
    BY <2>1
<1>b. Size(0) = d /\ Size(l) = l
  BY <1>0
<1> HIDE DEF T
<1>1. \A key : ~IsPinned(key)
  BY DEF IsPinned
<1>2. ASSUME NEW b \in Orderly, NEW k \in Scalars, NEW n \in Nat, ScalarIsValid(k, n)
      PROVE  Accepted(b, k, n) = ScalarSet(b, k, n) /\ ScalarSet(b, k, n) \in Orderly
  BY <1>1, <1>2, ScalarSetGives DEF Accepted
<1>3. ASSUME NEW b \in T[0]
      PROVE  ApplyPair(b, Pack(s)[1]) \in T[1]
  <2> DEFINE c == ScalarSet(b, "station", s.station)
  <2>0. T[0] = {Default} /\ T[1] = Upto(0)
    <3> HIDE DEF Upto
    <3>1. 1 \in 1 .. l + 1 /\ 1 - 1 = 0
      BY <1>0
    <3>2. QED
      BY <1>a, <3>1
  <2>1. b = Default /\ b \in Orderly /\ Len(b.report) = d
    BY <2>0, <1>3, DefaultIsOrderly
  <2>2. "station" \in Scalars /\ s.station \in Nat /\ ScalarIsValid("station", s.station)
    BY OrderlyIs DEF Scalars, ScalarIsValid
  <2>3. ApplyPair(b, Pack(s)[1]) = Accepted(b, "station", s.station)
    <3>1. Pack(s)[1] = Pair("station", <<s.station>>, NoRecord)
      BY PackIs
    <3> DEFINE p == Pair("station", <<s.station>>, NoRecord)
    <3>2. p.key = "station" /\ p.nums[1] = s.station
      BY DEF Pair
    <3> HIDE DEF p
    <3>3. ApplyPair(b, p) = Accepted(b, "station", p.nums[1])
      BY <3>2 DEF ApplyPair
    <3>4. QED
      BY <3>1, <3>2, <3>3 DEF p
  <2>4. ApplyPair(b, Pack(s)[1]) = c /\ c \in Orderly
    BY <1>2, <2>1, <2>2, <2>3
  <2>5. c.station = s.station /\ c.report = b.report
    BY <2>1 DEF ScalarSet, Orderly, Block
  <2> HIDE DEF c
  <2>6. QED
    <3>1. Len(c.report) = Size(0) /\ c.station = s.station /\ c \in Orderly
      BY <1>b, <2>1, <2>4, <2>5
    <3>2. c \in Upto(0)
      BY <3>1
    <3>3. QED
      BY <2>0, <2>4, <3>2
<1>4. ASSUME NEW i \in 1 .. l, NEW b \in T[i]
      PROVE  ApplyPair(b, Pack(s)[i + 1]) \in T[i + 1]
  <2> DEFINE r == s.report[i]
             n == ReportSet(b, r)
  <2>0. T[i] = Upto(i - 1) /\ T[i + 1] = Upto(i)
    <3> HIDE DEF Upto
    <3>1. i \in 1 .. l + 1 /\ i + 1 \in 1 .. l + 1 /\ (i + 1) - 1 = i
      BY <1>0
    <3>2. QED
      BY <1>a, <3>1
  <2>1. /\ b \in Orderly /\ b.station = s.station /\ Len(b.report) = Size(i - 1)
        /\ \A j \in 1 .. i - 1 : b.report[j] = s.report[j]
    BY <1>4, <2>0
  <2>2. r \in Statements(Subjects) /\ r.subject \in Subjects /\ r \in Statements({r.subject})
    BY OrderlyIs DEF Statements
  <2>3. ApplyPair(b, Pack(s)[i + 1]) = IF Settable(b, r) THEN n ELSE b
    <3>1. Pack(s)[i + 1] = Pair("report", <<>>, r)
      BY PackIs
    <3>2. QED
      BY <1>1, <3>1 DEF ApplyPair, Pair
  <2>4. CASE i <= d
    <3>1. i \in 1 .. Len(b.report) /\ Len(b.report) = d /\ i \in 1 .. d /\ Size(i) = d
      BY <1>0, <2>1, <2>4
    <3>2. b.report[i].subject = r.subject
      <4>1. b.report[i].subject = Scheduled[i]
        BY <2>1, <3>1, OrderlyIs
      <4>2. s.report[i].subject = Scheduled[i]
        BY <3>1, OrderlyIs
      <4>3. QED
        BY <4>1, <4>2
    <3>3. Found(b, r.subject) /\ Place(b, r.subject) = i
      BY <2>1, <3>1, <3>2, PlaceIs
    <3>4. Settable(b, r)
      BY <2>2, <3>3 DEF Settable
    <3>5. n \in Orderly
      BY <2>1, <2>2, <3>4, SetGives
    <3>6. n = [b EXCEPT !.report = [b.report EXCEPT ![i] = r]]
      BY <3>3 DEF ReportSet
    <3>7. b \in Block /\ b.report \in Seq(Statements(Subjects))
      BY <2>1, OrderlyIs
    <3>8. n.station = b.station /\ n.report = [b.report EXCEPT ![i] = r]
      BY <3>6, <3>7 DEF Block
    <3> HIDE DEF n, r
    <3>9. Len(n.report) = d /\ \A j \in 1 .. i : n.report[j] = IF j = i THEN r ELSE b.report[j]
      BY <1>0, <3>1, <3>7, <3>8
    <3>10. \A j \in 1 .. i : n.report[j] = s.report[j]
      <4>1. \A j \in 1 .. i : j = i \/ j \in 1 .. i - 1
        BY <1>0
      <4>2. QED
        BY <2>1, <3>9, <4>1 DEF r
    <3>11. n \in Upto(i)
      BY <2>1, <3>1, <3>5, <3>8, <3>9, <3>10
    <3>12. QED
      BY <2>0, <2>3, <3>4, <3>11
  <2>5. CASE ~(i <= d)
    <3>1. Len(b.report) = i - 1 /\ Size(i) = i /\ i \in Nat /\ i <= l
      BY <1>0, <2>1, <2>5
    <3>2. ~Found(b, r.subject)
      <4>1. ASSUME NEW j \in 1 .. Len(b.report)
            PROVE  b.report[j].subject # r.subject
        <5>1. j \in 1 .. i - 1 /\ j \in 1 .. l /\ j # i
          BY <1>0, <3>1
        <5>2. b.report[j] = s.report[j]
          BY <2>1, <5>1
        <5>3. QED
          BY <5>1, <5>2, OrderlyIs
      <4>2. Found(b, r.subject) => \E j \in 1 .. Len(b.report) : b.report[j].subject = r.subject
        BY <2>1, CurrentIs
      <4>3. QED
        BY <4>1, <4>2
    <3>3. Len(b.report) < ReportMax
      <4>1. l <= ReportMax
        BY OrderlyIs
      <4>2. ReportMax \in Nat /\ l \in Nat
        BY <1>0, SettingsNumbers
      <4>3. Len(b.report) = i - 1 /\ i \in Nat /\ i <= l
        BY <3>1
      <4> HIDE DEF l
      <4>4. QED
        BY <4>1, <4>2, <4>3
    <3>4. Settable(b, r)
      BY <2>2, <3>3 DEF Settable
    <3>5. n \in Orderly
      BY <2>1, <2>2, <3>4, SetGives
    <3>6. n = [b EXCEPT !.report = Append(b.report, r)]
      BY <3>2 DEF ReportSet
    <3>7. b \in Block /\ b.report \in Seq(Statements(Subjects))
      BY <2>1, OrderlyIs
    <3>8. n.station = b.station /\ n.report = Append(b.report, r)
      BY <3>6, <3>7 DEF Block
    <3> HIDE DEF n, r
    <3>9. Len(n.report) = i /\ \A j \in 1 .. i : n.report[j] = IF j = i THEN r ELSE b.report[j]
      BY <1>0, <2>2, <3>1, <3>7, <3>8
    <3>10. \A j \in 1 .. i : n.report[j] = s.report[j]
      <4>1. \A j \in 1 .. i : j = i \/ j \in 1 .. i - 1
        BY <1>0
      <4>2. QED
        BY <2>1, <3>9, <4>1 DEF r
    <3>11. n \in Upto(i)
      BY <2>1, <3>1, <3>5, <3>8, <3>9, <3>10
    <3>12. QED
      BY <2>0, <2>3, <3>4, <3>11
  <2>6. QED
    BY <2>4, <2>5
<1>5. ASSUME NEW b \in T[l + 1]
      PROVE  ApplyPair(b, Pack(s)[l + 2]) \in T[l + 2]
  <2> DEFINE w == ScalarSet(b, "window-s", s.window)
             m == ScalarSet(w, "interval-m", s.interval)
             o == ScalarSet(m, "offset-m", s.offset)
  <2>0. T[l + 1] = Upto(l) /\ T[l + 2] = {s} /\ Size(l) = l
    <3> HIDE DEF Upto
    <3>1. l + 1 \in 1 .. l + 1 /\ (l + 1) - 1 = l
      BY <1>0
    <3>2. QED
      BY <1>a, <1>b, <3>1
  <2>1. /\ b \in Orderly /\ b.station = s.station /\ Len(b.report) = l
        /\ \A j \in 1 .. l : b.report[j] = s.report[j]
    BY <1>5, <2>0
  <2>2. /\ "window-s" \in Scalars /\ "interval-m" \in Scalars /\ "offset-m" \in Scalars
        /\ s.window \in Nat /\ s.interval \in Nat /\ s.offset \in Nat
        /\ ScalarIsValid("window-s", s.window) /\ ScalarIsValid("interval-m", s.interval)
        /\ ScalarIsValid("offset-m", s.offset)
    BY OrderlyIs DEF Scalars, ScalarIsValid
  <2>3. ApplyPair(b, Pack(s)[l + 2])
          = Accepted(Accepted(Accepted(b, "window-s", s.window), "interval-m", s.interval),
                     "offset-m", s.offset)
    <3>1. Pack(s)[l + 2] = Pair("receive", <<s.window, s.interval, s.offset>>, NoRecord)
      BY PackIs
    <3> DEFINE p == Pair("receive", <<s.window, s.interval, s.offset>>, NoRecord)
    <3>2. p.key = "receive" /\ p.nums[1] = s.window /\ p.nums[2] = s.interval /\ p.nums[3] = s.offset
      BY DEF Pair
    <3> HIDE DEF p
    <3>3. ApplyPair(b, p) = Accepted(Accepted(Accepted(b, "window-s", p.nums[1]),
                                              "interval-m", p.nums[2]), "offset-m", p.nums[3])
      BY <3>2 DEF ApplyPair
    <3>4. QED
      BY <3>1, <3>2, <3>3 DEF p
  <2>4. Accepted(b, "window-s", s.window) = w /\ w \in Orderly
    BY <1>2, <2>1, <2>2
  <2>5. Accepted(w, "interval-m", s.interval) = m /\ m \in Orderly
    <3> HIDE DEF w
    <3>1. QED
      BY <1>2, <2>2, <2>4
  <2>6. Accepted(m, "offset-m", s.offset) = o /\ o \in Orderly
    <3> HIDE DEF m
    <3>1. QED
      BY <1>2, <2>2, <2>5
  <2>7. w.station = b.station /\ w.window = s.window /\ w.report = b.report
    BY <2>1 DEF ScalarSet, Orderly, Block
  <2>8. m.station = w.station /\ m.window = w.window /\ m.interval = s.interval
        /\ m.report = w.report
    <3> HIDE DEF w
    <3>1. QED
      BY <2>4 DEF ScalarSet, Orderly, Block
  <2>9. o.station = m.station /\ o.window = m.window /\ o.interval = m.interval
        /\ o.offset = s.offset /\ o.report = m.report
    <3> HIDE DEF m
    <3>1. QED
      BY <2>5 DEF ScalarSet, Orderly, Block
  <2> HIDE DEF w, m, o
  <2>10. o \in Block /\ s \in Block
    BY <2>6, OrderlyIs
  <2>11. o = s
    BY <2>1, <2>7, <2>8, <2>9, <2>10, SameBlock
  <2>12. QED
    BY <2>0, <2>3, <2>4, <2>5, <2>6, <2>11
<1>6. Len(Pack(s)) = l + 2 /\ Default \in T[0] /\ T[l + 2] = {s}
  BY <1>a, PackIs
<1>7. ASSUME NEW i \in 1 .. l + 2, NEW b \in T[i - 1]
      PROVE  ApplyPair(b, Pack(s)[i]) \in T[i]
  <2>1. CASE i = 1
    BY <1>3, <1>7, <2>1
  <2>2. CASE i = l + 2
    <3>1. i - 1 = l + 1
      BY <1>0, <2>2
    <3>2. QED
      BY <1>5, <1>7, <2>2, <3>1
  <2>3. CASE i # 1 /\ i # l + 2
    <3>1. i - 1 \in 1 .. l /\ (i - 1) + 1 = i
      BY <1>0, <2>3
    <3>2. QED
      BY <1>4, <1>7, <3>1
  <2>4. QED
    BY <2>1, <2>2, <2>3
<1>8. Len(Pack(s)) \in Nat
  BY <1>0, <1>6
<1>9. \A i \in 1 .. Len(Pack(s)) : \A b \in T[i - 1] : ApplyPair(b, Pack(s)[i]) \in T[i]
  <2> HIDE DEF l
  <2>1. QED
    BY <1>6, <1>7
<1>10. ApplyPairs(Default, Pack(s)) \in T[Len(Pack(s))]
  <2> HIDE DEF l
  <2>1. QED
    BY <1>6, <1>8, <1>9, PairsReach
<1>11. QED
  BY <1>6, <1>10
-----------------------------------------------------------------------------
LEMMA BlockStart == SettingsInit => BlockInv
<1> SUFFICES ASSUME SettingsInit PROVE BlockInv
  OBVIOUS
<1>1. stored = NoBlock \/ stored \in Orderly
  BY DefaultIsOrderly, PacketKeeps DEF SettingsInit
<1>2. block \in Orderly
  BY <1>1, DefaultIsOrderly DEF SettingsInit, LoadedBlock
<1>3. ~asked.took
  BY DEF SettingsInit, NoCommand
<1>4. QED
  BY <1>1, <1>2, <1>3 DEF BlockInv, AcceptedIsStated

\* The texts that are typed.
LEMMA TextsAre == Texts \subseteq AllTexts
BY SettingsNumbers DEF Texts, AllTexts

(* A key that takes a text.  *)
LEMMA TakenKeeps ==
  ASSUME BlockInv, NEW key \in Keys, NEW text \in Texts, Writable(block, key, text),
         block' = KeyWrite(block, key, text),
         asked' = [key |-> key, text |-> text, took |-> TRUE]
  PROVE  /\ block' \in Orderly /\ AcceptedIsStated'
         /\ \A other \in Keys \ {key} : Meaning(block', other) = Meaning(block, other)
<1>1. block \in Orderly /\ text \in AllTexts
  BY TextsAre DEF BlockInv
<1>2. /\ block' \in Orderly
      /\ text.n < TextMod => Meaning(block', key) = Says(text)
      /\ \A other \in Keys \ {key} : Meaning(block', other) = Meaning(block, other)
  BY <1>1, WriteMeans
<1>3. asked'.key = key /\ asked'.text = text
  OBVIOUS
<1>4. QED
  BY <1>2, <1>3 DEF AcceptedIsStated, Says

(* What is committed is what is in force, if anything.                       *)
LEMMA CommitKeeps ==
  ASSUME BlockInv, NEW s \in Orderly, CommitBlock(s)
  PROVE  stored' = NoBlock \/ stored' \in Orderly
BY DEF BlockInv, CommitBlock

LEMMA ArgumentKeeps ==
  ASSUME BlockInv, NEW key \in Keys, NEW text \in Texts, Argument(key, text)
  PROVE  BlockInv' /\ OthersStay
<1>1. /\ block' \in Orderly /\ AcceptedIsStated'
      /\ \A other \in Keys \ {key} : Meaning(block', other) = Meaning(block, other)
  BY TakenKeeps DEF Argument
<1>2. stored' = stored /\ phase # "running" /\ asked'.key = key
  BY DEF Argument
<1>3. BlockInv'
  BY <1>1, <1>2 DEF BlockInv
<1>4. OthersStay
  BY <1>1, <1>2 DEF OthersStay
<1>5. QED
  BY <1>3, <1>4

LEMMA ConsoleKeeps ==
  ASSUME BlockInv, NEW key \in Keys, NEW text \in Texts, Console(key, text)
  PROVE  BlockInv' /\ OthersStay
<1> DEFINE took == Offered(key, text) /\ ~IsPinned(key) /\ Writable(block, key, text)
<1>1. CASE took
  <2>1. /\ block' \in Orderly /\ AcceptedIsStated'
        /\ \A other \in Keys \ {key} : Meaning(block', other) = Meaning(block, other)
    <3>1. Writable(block, key, text) /\ block' = KeyWrite(block, key, text)
          /\ asked' = [key |-> key, text |-> text, took |-> TRUE]
      BY <1>1 DEF Console
    <3>2. QED
      BY <3>1, TakenKeeps
  <2>2. CommitBlock(block') /\ ~IsPinned(key) /\ asked'.key = key
    BY <1>1 DEF Console
  <2>3. BlockInv'
    BY <2>1, <2>2, CommitKeeps DEF BlockInv
  <2>4. OthersStay
    BY <2>1, <2>2 DEF OthersStay
  <2>5. QED
    BY <2>3, <2>4
<1>2. CASE ~took
  <2>1. block' = block /\ stored' = stored /\ asked' = [key |-> key, text |-> text, took |-> FALSE]
    BY <1>2 DEF Console
  <2>2. ~asked'.took
    BY <2>1
  <2>3. BlockInv'
    BY <2>1, <2>2 DEF BlockInv, AcceptedIsStated
  <2>4. OthersStay
    BY <2>1, <2>2 DEF OthersStay
  <2>5. QED
    BY <2>3, <2>4
<1>3. QED
  BY <1>1, <1>2

LEMMA OverTheAirKeeps ==
  ASSUME BlockInv, NEW kv \in Packets, OverTheAir(kv)
  PROVE  BlockInv' /\ OthersStay
<1>1. block' = ApplyPairs(block, kv) /\ ~asked'.took
      /\ (CommitBlock(block') \/ stored' = stored)
  BY DEF OverTheAir, NoCommand
<1>2. block' \in Orderly /\ Stays(block, block')
  BY <1>1, PacketKeeps DEF BlockInv
<1>3. BlockInv'
  BY <1>1, <1>2, CommitKeeps DEF BlockInv, AcceptedIsStated
<1>4. OthersStay
  BY <1>1, <1>2 DEF OthersStay, Stays
<1>5. QED
  BY <1>3, <1>4

LEMMA SettingsSteps == BlockInv /\ [SettingsNext]_settingsVars => BlockInv' /\ OthersStay
<1> SUFFICES ASSUME BlockInv, [SettingsNext]_settingsVars
             PROVE  BlockInv' /\ OthersStay
  OBVIOUS
<1>1. ASSUME NEW key \in Keys, NEW text \in Texts, Argument(key, text)
      PROVE  BlockInv' /\ OthersStay
  BY <1>1, ArgumentKeeps
<1>2. ASSUME NEW key \in Keys, NEW text \in Texts, Console(key, text)
      PROVE  BlockInv' /\ OthersStay
  BY <1>2, ConsoleKeeps
<1>3. ASSUME NEW kv \in Packets, OverTheAir(kv)
      PROVE  BlockInv' /\ OthersStay
  BY <1>3, OverTheAirKeeps
<1>4. CASE Run
  <2>1. UNCHANGED <<block, stored>> /\ ~asked'.took /\ phase # "running"
    BY <1>4 DEF Run, NoCommand
  <2>2. QED
    BY <2>1 DEF BlockInv, AcceptedIsStated, OthersStay
<1>5. CASE SettingsRestart
  <2>1. /\ block' = LoadedBlock /\ stored' = stored /\ ~asked'.took /\ phase' # "running"
    BY <1>5 DEF SettingsRestart, NoCommand
  <2>2. block' \in Orderly
    BY <2>1, DefaultIsOrderly DEF LoadedBlock, BlockInv
  <2>3. QED
    BY <2>1, <2>2 DEF BlockInv, AcceptedIsStated, OthersStay
<1>6. CASE UNCHANGED settingsVars
  BY <1>6 DEF settingsVars, BlockInv, AcceptedIsStated, OthersStay
<1>7. QED
  BY <1>1, <1>2, <1>3, <1>4, <1>5, <1>6 DEF SettingsNext

(* What the invariant says of the block. *)
LEMMA BlockSound == BlockInv => BlockIsSound
<1> SUFFICES ASSUME BlockInv PROVE BlockIsSound
  OBVIOUS
<1>0. block \in Orderly
  BY DEF BlockInv
<1>1. BlockInOrder(block)
  <2>1. \A k \in Scalars : ScalarIsValid(k, Scalar(block, k))
    BY <1>0, ScalarIs
  <2>2. System \subseteq {block.report[i].subject : i \in DOMAIN block.report}
    <3> SUFFICES ASSUME NEW i \in 1 .. Len(Scheduled)
                 PROVE  \E j \in DOMAIN block.report : Scheduled[i] = block.report[j].subject
      BY SettingsNumbers DEF System
    <3>1. i \in DOMAIN block.report /\ block.report[i].subject = Scheduled[i]
      BY <1>0, SettingsNumbers DEF Orderly
    <3>2. QED
      BY <3>1
  <2>3. QED
    BY <1>0, <2>1, <2>2, OrderlyIs DEF BlockInOrder
<1>2. KeysReadBack
  <2> SUFFICES ASSUME NEW key \in Keys
               PROVE  /\ Writable(block, key, KeyRead(block, key))
                      /\ Meaning(KeyWrite(block, key, KeyRead(block, key)), key) = Meaning(block, key)
    BY DEF KeysReadBack
  <2>1. /\ KeyRead(block, key) \in AllTexts /\ Writable(block, key, KeyRead(block, key))
        /\ KeyRead(block, key).n < TextMod
        /\ Says(KeyRead(block, key)) = Meaning(block, key)
    BY <1>0, ReadsAreWritten
  <2>2. QED
    BY <1>0, <2>1, WriteMeans
<1>3. ReportIsEverything
  BY <1>0, PackBack DEF ReportIsEverything
<1>4. QED
  BY <1>1, <1>2, <1>3 DEF BlockIsSound, BlockInv

(* The settings, for every set of reportable and vendor types, every default, *)
(* range and number and whatever packets the radio brings: the block stays   *)
(* in order, an accepted text is what is in force, every key reads as what    *)
(* may be written back, a report of the settings makes another node the      *)
(* same; and no write moves another key's meaning or a pinned one's.          *)
THEOREM SettingsAlwaysSound == SettingsSpec => SettingsAreSound
<1>1. SettingsInit => BlockInv
  BY BlockStart
<1>2. BlockInv /\ [SettingsNext]_settingsVars => BlockInv' /\ [OthersStay]_settingsVars
  BY SettingsSteps
<1>3. BlockInv => BlockIsSound
  BY BlockSound
<1>4. QED
  BY <1>1, <1>2, <1>3, PTL DEF SettingsSpec, SettingsAreSound, BlockIsSound
=============================================================================
