--------------------------- MODULE MCSensorNumbers ---------------------------
(* The node without faults, with a record of what has been on the air.       *)
EXTENDS SensorNode

Asked == [station : {0, 1, 2}, window : {0, 2}, interval : {0, 2, 4}]

(* With no faults a frame goes out exactly when its number is consumed.     *)
VARIABLE onAir

GoesOut  == pc \in Awake /\ node'.sequence = node.sequence + 1
Identity == <<node.station, node.sequence>>

RecordedInit == Init /\ onAir = {}

Recorded ==
  Next /\ onAir' = IF GoesOut THEN onAir \union {Identity} ELSE onAir

RecordedSpec == RecordedInit /\ [][Recorded]_<<vars, onAir>>

(* "Sequence numbers that never go backwards": no frame goes out under a     *)
(* station and a number that an earlier one had.                            *)
NumbersNeverReturn == [][GoesOut => Identity \notin onAir]_<<vars, onAir>>
=============================================================================
