----------------------------- MODULE SensorNode -----------------------------
(***************************************************************************)
(* What a node is across its sleeps and restarts: its station number, the  *)
(* sequence number of its next frame, its protocol settings and the        *)
(* countdown to its next receive window - iotdata_node_runtime.h over      *)
(* iotdata_node_settings.h and iotdata_node_state.h, driven by the loop of *)
(* apps/app_template_simple_lora_esp32.c.                                  *)
(*                                                                         *)
(* The node is single-threaded and can stop between any two steps that     *)
(* touch the flash or the air, so these are the steps.  RTC memory is lost *)
(* with the power and survives a deep sleep and every other restart; the   *)
(* rest of the memory survives nothing.                                    *)
(***************************************************************************)
EXTENDS Integers

CONSTANTS
  Stations,         \* the assignable station numbers
  Mac,              \* the one derived from the MAC
  Requests,         \* the settings a manager asks for: [station, window, interval]
  Pinned,           \* the settings fixed by the command line
  DefaultWindow, WindowMax,
  DefaultInterval, IntervalMax,
  LastNumber,       \* bound: no frame goes out under a number from here on
  Periods,          \* how long a cycle may take, its sleep included
  Faults            \* what may go wrong, of FaultKinds

FaultKinds ==
  {"cut",      \* the power goes
   "reset",    \* watchdog, panic, brownout, or the application's own failure
   "open",     \* the datastore does not open
   "read",     \* the image cannot be read
   "update",   \* other firmware starts, with another version of the settings
   "write",    \* the image is not written
   "radio",    \* the radio does not start
   "refused",  \* a frame does not go out
   "late"}     \* a frame goes out, and is reported as failed

ASSUME NodeAssumption ==
  /\ Stations \subseteq Nat \ {0} /\ Mac \in Stations
  /\ Requests \subseteq [station : Nat, window : Nat, interval : Nat]
  /\ DefaultWindow \in 1 .. WindowMax /\ DefaultInterval \in 0 .. IntervalMax
  /\ WindowMax \in Nat /\ IntervalMax \in Nat
  /\ LastNumber \in Nat
  /\ Periods \subseteq Nat
  /\ Faults \subseteq FaultKinds

VARIABLES
  image,      \* the flash: what the state store saved
  node,       \* RTC memory: iotdata_node_t
  settings,   \* iotdata_node_settings_t, registered as a block of the store
  open,       \* the store has a datastore
  pc,         \* where the loop is, or how the node went off
  advertise,  \* this cycle's frame is to carry a RECEIVE
  reboot,     \* a REBOOT was commanded in this window
  burnt,      \* history: the number at the last save under this station
  failed,     \* history: the settings in force are not those in the flash
  told        \* history: the settings last reported as kept

vars == <<image, node, settings, open, pc, advertise, reboot, burnt, failed, told>>

Off    == {"power", "reset", "sleep"}
Listen == {"listen", "commit", "adopt", "report"}
Awake  == {"packet", "transmit", "window", "final", "rest"} \union Listen

Valid == [station : Stations, window : 1 .. WindowMax, interval : 0 .. IntervalMax]
Zero  == [station |-> 0, window |-> 0, interval |-> 0]
Untold == Zero

Defaults(s) == [station |-> s, window |-> DefaultWindow, interval |-> DefaultInterval]

(* iotdata_node_init: the memset of a cold boot. *)
Fresh == [station |-> Mac, sequence |-> 0, elapsed |-> 0, pending |-> FALSE]

Blank == [saved |-> FALSE, settings |-> Defaults(Mac), sequence |-> 0]

Init ==
  /\ image = Blank
  /\ node = Fresh
  /\ settings = Zero
  /\ open = FALSE
  /\ pc = "power"
  /\ advertise = FALSE /\ reboot = FALSE
  /\ burnt = 0 /\ failed = TRUE /\ told = Untold

-----------------------------------------------------------------------------
(* The state store.                                                        *)

(* A slip: the block of the sequence number is not registered. *)
SavedOne(n, s) == [saved |-> TRUE, settings |-> s, sequence |-> 0]

(* iotdata_node_state_flush: every registered block in one image.          *)
Saved(n, s) == [saved |-> TRUE, settings |-> s, sequence |-> n.sequence]

(* A slip: a save that comes too soon after another is skipped.             *)
FlushLater(n) ==
  \/ /\ open
     /\ image' = Saved(n, settings)
     /\ burnt' = n.sequence
     /\ failed' = FALSE
  \/ /\ burnt' = IF n.station = node.station THEN burnt ELSE 0
     /\ UNCHANGED <<image, failed>>

(* What a flush leaves when the node is about to be n.  A store without a   *)
(* datastore saves nothing; a write leaves the new image or the old.        *)
Flush(n) ==
  \/ /\ open
     /\ image' = Saved(n, settings)
     /\ burnt' = n.sequence
     /\ failed' = FALSE
  \/ /\ ~open \/ "write" \in Faults
     /\ burnt' = IF n.station = node.station THEN burnt ELSE 0
     /\ failed' = TRUE
     /\ UNCHANGED image

(* The blocks a load may fail to restore: all when the image is not read,    *)
(* one when its version is not the firmware's.                              *)
Losses ==
  {{}}
  \union (IF "read" \in Faults THEN {{"settings", "sequence"}} ELSE {})
  \union (IF "update" \in Faults /\ pc # "sleep" THEN {{"settings"}} ELSE {})

Restored(tag, lost) == image.saved /\ tag \notin lost

-----------------------------------------------------------------------------
(* iapp_init: what the node is after a boot.                               *)

Assignable(s) == s \in Stations

(* A slip: every boot is taken for a cold one. *)
KeptAlways(n) == Fresh

(* What RTC memory still says: nothing after the power was gone.            *)
Kept(n) == IF pc = "power" THEN Fresh ELSE n

(* iotdata_node_state_load: first the defaults, then what the image has.    *)
LoadedSettings(n, lost) ==
  IF Restored("settings", lost) THEN image.settings ELSE Defaults(n.station)

LoadedNumber(lost) == IF Restored("sequence", lost) THEN image.sequence ELSE 0

(* A slip: the station is not restored from the settings. *)
StationUnrestored(n, s) == n.station

StationRestored(n, s) == IF Assignable(s.station) THEN s.station ELSE n.station

Boot ==
  /\ pc \in Off
  /\ \/ \E lost \in Losses :
          LET kept == Kept(node)
              s    == LoadedSettings(kept, lost) IN
          /\ open' = TRUE
          /\ settings' = s
          /\ node' = [kept EXCEPT !.station = StationRestored(kept, s),
                                  !.sequence = LoadedNumber(lost)]
          /\ burnt' = IF node'.station # node.station \/ "sequence" \in lost
                        THEN 0 ELSE burnt
          /\ failed' = (lost # {} \/ ~image.saved)
          /\ told' = IF "settings" \in lost THEN Untold ELSE told
     \/ /\ "open" \in Faults   \* the settings stay what the start of the program left
        /\ open' = FALSE
        /\ settings' = Zero
        /\ node' = Kept(node)
        /\ burnt' = IF pc = "power" THEN 0 ELSE burnt
        /\ failed' = TRUE
        /\ UNCHANGED told
  /\ pc' = "packet"
  /\ advertise' = FALSE /\ reboot' = FALSE
  /\ UNCHANGED image

-----------------------------------------------------------------------------
(* iapp_exec: one cycle.                                                   *)

Used(n) == [n EXCEPT !.sequence = @ + 1]

(* A frame under the node's number: what the radio makes of it.  Only a      *)
(* frame reported as sent consumes its number.                              *)
Outcomes ==
  (IF node.sequence < LastNumber THEN {"sent"} ELSE {"refused"})
  \union ({"refused", "late"} \intersect Faults)

Sends(out) == node' = IF out = "sent" THEN Used(node) ELSE node

(* The application builds its packet, or has none this time, and the radio   *)
(* is started for it or for the window that is due.                         *)
Packet ==
  /\ pc = "packet"
  /\ advertise' = node.pending
  /\ \E transmit \in BOOLEAN :
       \/ /\ transmit \/ node.pending
          /\ pc' = IF transmit THEN "transmit" ELSE "window"
       \/ /\ ~(transmit \/ node.pending) \/ "radio" \in Faults
          /\ pc' = "final"
  /\ UNCHANGED <<image, node, settings, open, reboot, burnt, failed, told>>

Transmit ==
  /\ pc = "transmit"
  /\ \E out \in Outcomes : Sends(out)
  /\ pc' = IF advertise THEN "window" ELSE "final"
  /\ UNCHANGED <<image, settings, open, advertise, reboot, burnt, failed, told>>

(* iotdata_node_window_begin, at the head of iapp_node_receive.  Without a    *)
(* store the window is 0 seconds long.                                      *)
WindowBegin ==
  /\ pc = "window"
  /\ node' = [node EXCEPT !.pending = FALSE, !.elapsed = 0]
  /\ pc' = IF settings.window = 0 THEN "final" ELSE "listen"
  /\ UNCHANGED <<image, settings, open, advertise, reboot, burnt, failed, told>>

Close ==
  /\ pc = "listen"
  /\ pc' = IF reboot THEN "reset" ELSE "final"
  /\ UNCHANGED <<image, node, settings, open, advertise, reboot, burnt, failed, told>>

Final ==
  /\ pc = "final"
  /\ Flush(node)
  /\ pc' = "rest"
  /\ UNCHANGED <<node, settings, open, advertise, reboot, told>>

(* iotdata_node_window_advance.  An interval of 0 never comes due.          *)
Advanced(n, d) ==
  IF settings.interval = 0 \/ n.pending THEN n
  ELSE [n EXCEPT !.elapsed = @ + d, !.pending = (n.elapsed + d >= settings.interval)]

(* A light sleep goes on to the next cycle, a deep one ends in a boot.      *)
Rest ==
  /\ pc = "rest"
  /\ \E d \in Periods : node' = Advanced(node, d)
  /\ pc' \in {"packet", "sleep"}
  /\ UNCHANGED <<image, settings, open, advertise, reboot, burnt, failed, told>>

-----------------------------------------------------------------------------
(* iotdata_node_on_frame: the commands that arrive in a window.            *)

(* iotdata_node_settings_apply: each field on its own, if it is acceptable. *)
Applied(s, r) ==
  [station  |-> IF Assignable(r.station) /\ "station" \notin Pinned
                  THEN r.station ELSE s.station,
   window   |-> IF r.window \in 1 .. WindowMax /\ "window" \notin Pinned
                  THEN r.window ELSE s.window,
   interval |-> IF r.interval <= IntervalMax /\ "interval" \notin Pinned
                  THEN r.interval ELSE s.interval]

(* iotdata_node_process_settings, in four steps: apply, commit, adopt and    *)
(* answer.                                                                  *)
Apply(r) ==
  /\ pc = "listen"
  /\ settings' = Applied(settings, r)
  /\ pc' = IF settings' = settings THEN "report" ELSE "commit"
  /\ told' = IF settings' = settings THEN told ELSE Untold
  /\ UNCHANGED <<image, node, open, advertise, reboot, burnt, failed>>

Commit ==
  /\ pc = "commit"
  /\ Flush(node)
  /\ pc' = "adopt"
  /\ UNCHANGED <<node, settings, open, advertise, reboot, told>>

Adopted(n, s) == [n EXCEPT !.station = s, !.sequence = 0]

Adopt ==
  /\ pc = "adopt"
  /\ IF settings.station # node.station /\ Assignable(settings.station)
       THEN LET n == Adopted(node, settings.station) IN node' = n /\ Flush(n)
       ELSE UNCHANGED <<node, image, burnt, failed>>
  /\ pc' = "report"
  /\ UNCHANGED <<settings, open, advertise, reboot, told>>

(* What is now true goes out, whether or not it was saved.                  *)
Report ==
  /\ pc = "report"
  /\ \E out \in Outcomes :
       /\ Sends(out)
       /\ told' = IF out = "refused" \/ failed THEN told ELSE settings
  /\ pc' = "listen"
  /\ UNCHANGED <<image, settings, open, advertise, reboot, burnt, failed>>

(* A report of another type is asked for, or sent in answer to a CONFIG.     *)
Answer ==
  /\ pc = "listen"
  /\ \E out \in Outcomes : Sends(out)
  /\ UNCHANGED <<image, settings, open, pc, advertise, reboot, burnt, failed, told>>

RebootCommand ==
  /\ pc = "listen"
  /\ reboot' = TRUE
  /\ UNCHANGED <<image, node, settings, open, pc, advertise, burnt, failed, told>>

(* A ROLLBACK that has an image to go back to does not return.              *)
RollbackCommand ==
  /\ pc = "listen"
  /\ pc' = "reset"
  /\ UNCHANGED <<image, node, settings, open, advertise, reboot, burnt, failed, told>>

-----------------------------------------------------------------------------
PowerCut ==
  /\ "cut" \in Faults /\ pc # "power"
  /\ pc' = "power"
  /\ UNCHANGED <<image, node, settings, open, advertise, reboot, burnt, failed, told>>

Reset ==
  /\ "reset" \in Faults /\ pc \in Awake
  /\ pc' = "reset"
  /\ UNCHANGED <<image, node, settings, open, advertise, reboot, burnt, failed, told>>

Cycle == Packet \/ Transmit \/ WindowBegin \/ Close \/ Final \/ Rest

OnFrame ==
  \/ \E r \in Requests : Apply(r)
  \/ Commit \/ Adopt \/ Report
  \/ Answer \/ RebootCommand \/ RollbackCommand

Next == Boot \/ Cycle \/ OnFrame \/ PowerCut \/ Reset

Spec == Init /\ [][Next]_vars

-----------------------------------------------------------------------------
Nodes == [station : Stations, sequence : Nat, elapsed : Nat, pending : BOOLEAN]

(* The settings in force are in range, or all zero when there is no store;   *)
(* the ones in the flash are in range always.                               *)
TypeOK ==
  /\ image \in [saved : BOOLEAN, settings : Valid, sequence : Nat]
  /\ node \in Nodes
  /\ open \in BOOLEAN
  /\ settings \in Valid \union {Zero}
  /\ open => settings \in Valid
  /\ pc \in Off \union Awake
  /\ advertise \in BOOLEAN /\ reboot \in BOOLEAN
  /\ burnt \in Nat /\ failed \in BOOLEAN
  /\ told \in Valid \union {Untold}

(* Through sleeps, cuts, resets and failing saves, a number consumed before   *)
(* a save is not used again after it under the same station, unless the      *)
(* saved number could not be read back.                                     *)
SavedIsNotReused == pc \in Awake => node.sequence >= burnt

(* (station, sequence) is a packet's whole identity: outside the handling of  *)
(* a settings command, the station in the frames is the one in the settings, *)
(* which a report names and a restart comes back as.                        *)
StationAgrees ==
  open /\ pc \in Awake \ {"commit", "adopt"} => node.station = settings.station

(* A write is answered with a fact and not "with a promise": what a report    *)
(* told a manager, with the last save having worked, is what any restart     *)
(* will find, until he asks for something else.                             *)
ToldIsKept == told # Untold => image.saved /\ image.settings = told

(* A deep sleep is a restart of everything, and must not be felt: the node   *)
(* wakes as it went to sleep.  Any other restart but a cold one keeps the    *)
(* countdown to the window, the only way in.                                *)
Wakes == pc \in Off /\ pc' \in Awake

SleepLosesNothing ==
  [][Wakes =>
       /\ (pc = "sleep" /\ ~failed /\ open' /\ ~failed') =>
            (node' = node /\ settings' = settings)
       /\ (pc # "power") =>
            (node'.elapsed = node.elapsed /\ node'.pending = node.pending)]_vars

=============================================================================
