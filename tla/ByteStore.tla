------------------------------ MODULE ByteStore ------------------------------
(* What every content backend promises through the seam of                   *)
(* device/d_module_filestore.h: byte ranges by id, each writeable at an      *)
(* offset and readable back, "a store must be able to read back whatever it  *)
(* can write".  A file is a function on the offsets that were written.       *)
EXTENDS Naturals, Sequences

CONSTANTS Ids, Values, MaxTotal, Absent

VARIABLES file,   \* per id, Absent or the bytes written so far, by offset
          reply   \* what the last call returned

Offsets == 0 .. MaxTotal - 1
Contents == UNION {[Where -> Values] : Where \in SUBSET Offsets}

ByteStoreAssumption == MaxTotal \in Nat \ {0} /\ Absent \notin Contents

Refused == [did |-> FALSE, bytes |-> << >>]
Done(bytes) == [did |-> TRUE, bytes |-> bytes]

Data == UNION {[1 .. n -> Values] : n \in 1 .. MaxTotal}

(* Values put down from an offset on, over what is there. *)
Put(content, off, data) ==
  [o \in DOMAIN content \cup {off + i - 1 : i \in DOMAIN data} |->
     IF o >= off /\ o < off + Len(data) THEN data[o - off + 1] ELSE content[o]]

(* The bytes of a range, all of which were written. *)
Got(content, off, n) == [i \in 1 .. n |-> content[off + i - 1]]
Held(content, off, n) == \A o \in off .. off + n - 1 : o \in DOMAIN content

Init == file = [id \in Ids |-> Absent] /\ reply = Refused

Refuse == reply' = Refused /\ UNCHANGED file

Create(id) == file' = [file EXCEPT ![id] = << >>] /\ reply' = Done(<< >>)

(* A write is done whole, or is refused and a beginning of it may have      *)
(* landed.                                                                   *)
Write(id, off, data) ==
  /\ file[id] # Absent
  /\ \/ file' = [file EXCEPT ![id] = Put(@, off, data)] /\ reply' = Done(<< >>)
     \/ \E n \in 1 .. Len(data) - 1 :
          file' = [file EXCEPT ![id] = Put(@, off, SubSeq(data, 1, n))] /\ reply' = Refused

Read(id, off, n) ==
  /\ file[id] # Absent /\ Held(file[id], off, n)
  /\ reply' = Done(Got(file[id], off, n)) /\ UNCHANGED file

Destroy(id) == file' = [file EXCEPT ![id] = Absent] /\ reply' = Done(<< >>)

(* A question that is answered with yes. *)
Confirm(id) == file[id] # Absent /\ reply' = Done(<< >>) /\ UNCHANGED file

(* A rename that fails may have cleared the name it was to take. *)
Rename(from, to) ==
  \/ /\ file[from] # Absent /\ from # to
     /\ file' = [file EXCEPT ![to] = file[from], ![from] = Absent]
     /\ reply' = Done(<< >>)
  \/ file' = [file EXCEPT ![to] = Absent] /\ reply' = Refused

Next ==
  \/ Refuse
  \/ \E id \in Ids : Create(id) \/ Destroy(id) \/ Confirm(id)
  \/ \E id \in Ids, off \in Offsets, data \in Data :
       off + Len(data) <= MaxTotal /\ Write(id, off, data)
  \/ \E id \in Ids, off \in Offsets, n \in 1 .. MaxTotal : Read(id, off, n)
  \/ \E from, to \in Ids : Rename(from, to)

Spec == Init /\ [][Next]_<<file, reply>>
=============================================================================
