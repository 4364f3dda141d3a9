----------------------------- MODULE OtaUpdate -----------------------------
(* The over-the-air update of a node: the consumer that applies firmware    *)
(* bundles out of the content store (iotdata_node_content_ota.h), the spare *)
(* slot it writes (d_module_otaslot_esp32.h), the record of its attempts in *)
(* the state store, and the probation of the image that runs                *)
(* (iotdata_node_firmware.h), with a boot loader that falls back.           *)
(*                                                                          *)
(* The loop is single-threaded: a call is one step, and a power cut inside  *)
(* the one call where it matters is a step of its own.  The node restarts   *)
(* at any time, an image that never gets as far as its loop included.  The  *)
(* stamp of a build is a number, and identifies its image.  The loop acts   *)
(* on a request to restart before anything else (`leaving').                *)
EXTENDS Naturals, FiniteSets

CONSTANTS Ids,          \* the ids of bundles in the content store
          Bundles,      \* the bundles there are, see BundleRecords
          Factory,      \* the stamp of the image the node was built with
          Chunks,       \* the calls it takes to write a whole image
          AttemptsMax,  \* IOTDATA_NODE_OTA_APPLY_ATTEMPTS_MAX
          Absent,       \* no file
          NoId,         \* the id that no file has
          Faults        \* what may fail: "begin", "write", "flash", "hash", "end", "save", "activate"

Slots == {"a", "b"}

Other(s) == IF s = "a" THEN "b" ELSE "a"

Full == 0    \* what a bundle that is no difference is based on

BundleRecords ==
  [stamp : Nat \ {0}, base : Nat, downgrade : BOOLEAN,
   whole : BOOLEAN,     \* the payload is what its header says
   vouched : BOOLEAN]   \* the header says what the image's hash is

ASSUME OtaAssumption ==
  /\ NoId \notin Ids
  /\ Bundles \subseteq BundleRecords
  /\ Absent \notin Bundles
  /\ Factory \in Nat \ {0}
  /\ Chunks \in Nat \ {0}
  /\ AttemptsMax \in 1 .. 254

VARIABLES held,    \* the bundle under each id, or Absent
          owner,   \* the store's record of the consumer's answer for each id
          c,       \* the consumer and the probation: what a restart forgets
          ram,     \* the record of attempts, as it is in memory
          disk,    \* and as it was last saved
          slot,    \* the image in each slot
          mark,    \* what the boot loader knows of each slot
          boot,    \* the slot it starts next
          run,     \* the slot that runs
          tried,   \* history: attempts since an upload, an arming, a confirmation
          entered  \* history: the ids in the record since then, saved or not

history == <<tried, entered>>

flash == <<slot, mark, boot, run>>

vars == <<held, owner, c, ram, disk, flash, history>>

Images == [stamp : Nat, sound : BOOLEAN]

Erased == [stamp |-> 0, sound |-> FALSE]

Records == [id : Ids \cup {NoId}, stamp : Nat, attempts : 0 .. AttemptsMax]

NoRecord == [id |-> NoId, stamp |-> 0, attempts |-> 0]

Phases == {"idle", "writing", "failed"}

Consumers ==
  [node : {"starting", "up", "leaving"}, enabled : BOOLEAN, phase : Phases,
   id : Ids \cup {NoId}, off : 0 .. Chunks,
   torn : BOOLEAN,          \* a write did not land as it was
   refused : Ids \cup {NoId}, probation : BOOLEAN]

Starting ==
  [node |-> "starting", enabled |-> FALSE, phase |-> "idle", id |-> NoId,
   off |-> 0, torn |-> FALSE, refused |-> NoId, probation |-> FALSE]

TypeOK ==
  /\ held \in [Ids -> Bundles \cup {Absent}]
  /\ owner \in [Ids -> {"none", "mine", "work"}]
  /\ c \in Consumers
  /\ ram \in Records /\ disk \in Records
  /\ slot \in [Slots -> Images]
  /\ mark \in [Slots -> {"valid", "new", "pending", "aborted", "invalid"}]
  /\ boot \in Slots /\ run \in Slots
  /\ tried \in [Ids -> 0 .. AttemptsMax + 1]
  /\ entered \subseteq Ids

Untried == [id \in Ids |-> 0]

Up == c.node = "up"

Spare == Other(run)

MyStamp == slot[run].stamp

Held(id) == held[id] # Absent

Busy == \E id \in Ids : owner[id] = "work"

(* From here on attempts are counted anew. *)
Intervention == tried' = Untried /\ entered' = {}

(* A node as it leaves the bench: one image, trusted. *)
Init ==
  /\ held = [id \in Ids |-> Absent]
  /\ owner = [id \in Ids |-> "none"]
  /\ c = Starting
  /\ ram = NoRecord /\ disk = NoRecord
  /\ slot = [s \in Slots |-> IF s = "a" THEN [stamp |-> Factory, sound |-> TRUE] ELSE Erased]
  /\ mark = [s \in Slots |-> IF s = "a" THEN "valid" ELSE "invalid"]
  /\ boot = "a" /\ run = "a"
  /\ tried = Untried /\ entered = {}

-----------------------------------------------------------------------------
(* Offered a file.                                                          *)

(* The bundle is for this build: newer, unless it says that older is meant, *)
(* and a difference only to what runs.                                      *)
Acceptable(b) ==
  /\ b.stamp > MyStamp \/ b.downgrade
  /\ b.base \in {Full, MyStamp}

Spent(id) == ram.id = id /\ ram.attempts >= AttemptsMax

(* What the claim answers to a bundle `b' under an id, the consumer in state `x'. *)
Takeable(x, id, b) ==
  /\ Acceptable(b)
  /\ x.enabled /\ id # x.refused /\ x.phase # "failed"
  /\ ~Spent(id)
  /\ x.phase = "idle" \/ x.id = id

Claiming(x, id) == [x EXCEPT !.id = id, !.off = 0, !.phase = "idle"]

(* One bundle is offered. *)
Offered(id, b) ==
  IF Takeable(c, id, b)
  THEN /\ c' = Claiming(c, id)
       /\ owner' = [owner EXCEPT ![id] = "work"]
  ELSE /\ owner' = [owner EXCEPT ![id] = "mine"]
       /\ UNCHANGED c

(* The node comes up, which a torn image does not get to: the probation is  *)
(* read from the slot, and all that is held is offered in the order of the  *)
(* directory, so that the last one claimed will be worked on.               *)
Begin ==
  /\ c.node = "starting"
  /\ slot[run].sound
  /\ \E on \in BOOLEAN :
       LET fresh == [Starting EXCEPT !.node = "up", !.enabled = on,
                                     !.probation = mark[run] = "pending"]
           taken == {id \in Ids : Held(id) /\ Takeable(fresh, id, held[id])}
       IN /\ owner' = [id \in Ids |-> IF id \in taken THEN "work"
                                      ELSE IF Held(id) THEN "mine" ELSE "none"]
          /\ IF taken = {} THEN c' = fresh
             ELSE \E last \in taken : c' = Claiming(fresh, last)
  /\ UNCHANGED <<held, ram, disk, flash, history>>

(* A bundle arrives; the store takes no upload while somebody works. *)
Upload ==
  /\ Up /\ ~Busy
  /\ \E id \in Ids, b \in Bundles :
       /\ held' = [held EXCEPT ![id] = b]
       /\ Offered(id, b)
  /\ Intervention
  /\ UNCHANGED <<ram, disk, flash>>

(* The store asks the owner of a file again, when nobody works. *)
Reoffer ==
  /\ Up /\ ~Busy
  /\ \E id \in Ids : Held(id) /\ owner[id] = "mine" /\ Offered(id, held[id])
  /\ UNCHANGED <<held, ram, disk, flash, history>>

Delete ==
  /\ Up
  /\ \E id \in Ids :
       /\ Held(id) /\ owner[id] # "work"
       /\ held' = [held EXCEPT ![id] = Absent]
       /\ owner' = [owner EXCEPT ![id] = "none"]
  /\ UNCHANGED <<c, ram, disk, flash, history>>

-----------------------------------------------------------------------------
(* The work: the slot is opened, written chunk by chunk (a difference in    *)
(* one go), verified, recorded, activated.                                  *)

GivenUp(x) == [x EXCEPT !.phase = "failed", !.refused = x.id, !.off = 0]

(* This one is given up; the file stays. *)
GiveUp(id) ==
  /\ c' = GivenUp(c)
  /\ owner' = [owner EXCEPT ![id] = "mine"]
  /\ UNCHANGED held

(* It is not what its header says, and goes. *)
GiveUpAndDelete(id) ==
  /\ c' = GivenUp(c)
  /\ owner' = [owner EXCEPT ![id] = "none"]
  /\ held' = [held EXCEPT ![id] = Absent]

(* The ticked one is not the one that was claimed last. *)
WorkIdles ==
  /\ Up
  /\ \E id \in Ids :
       /\ owner[id] = "work"
       /\ id # c.id \/ c.phase = "failed"
       /\ owner' = [owner EXCEPT ![id] = "mine"]
  /\ UNCHANGED <<held, c, ram, disk, flash, history>>

(* Slip: the slot's refusal goes unnoticed. *)
OpenableAlways == c.phase \in {"idle", "writing"}

(* The slot is open, or can be: not from an image that is on probation. *)
Openable == c.phase = "writing" \/ (c.phase = "idle" /\ mark[run] # "pending")

Working(id) == Up /\ owner[id] = "work" /\ id = c.id /\ c.phase # "failed"

(* The header, of the bundle being applied: nobody takes it away meanwhile. *)
Head == held[c.id]

Difference == Head.base # Full

Erasing == slot' = [slot EXCEPT ![Spare] = Erased]

(* The slot is not opened, or is and erased, and then there is no decoder. *)
WorkOpenFails ==
  /\ c.phase = "idle"
  /\ \E id \in Ids : Working(id) /\ GiveUp(id)
  /\ \/ (~Openable \/ "begin" \in Faults) /\ UNCHANGED slot
     \/ Openable /\ "begin" \in Faults /\ Erasing
  /\ UNCHANGED <<ram, disk, mark, boot, run, history>>

Streaming == Openable /\ ~Difference /\ c.off < Chunks

(* The next chunk, as it is or torn on its way into the flash. *)
WorkStreams ==
  /\ \E id \in Ids : Working(id) /\ Streaming
  /\ \E torn \in {FALSE} \cup {"flash" \in Faults} :
       c' = [c EXCEPT !.phase = "writing", !.off = @ + 1,
                      !.torn = (c.phase = "writing" /\ @) \/ torn]
  /\ Erasing
  /\ UNCHANGED <<held, owner, ram, disk, mark, boot, run, history>>

(* A chunk that cannot be read or written, or makes no sense to the codec. *)
WorkStreamFails ==
  /\ \E id \in Ids :
       /\ Working(id) /\ Streaming
       /\ \/ "write" \in Faults /\ GiveUp(id)
          \/ ~Head.whole /\ GiveUpAndDelete(id)
  /\ Erasing
  /\ UNCHANGED <<ram, disk, mark, boot, run, history>>

Finishing == Openable /\ (Difference \/ c.off = Chunks)

(* Slip: what landed is not read back. *)
MatchesUnread(torn) == TRUE

(* What is in the slot is what the header vouches for. *)
Matches(torn) == Head.vouched => ~torn

(* Slip: each attempt is the first. *)
AttemptAnew == [id |-> c.id, stamp |-> Head.stamp, attempts |-> 1]

(* The attempt, as it is written down: the count belongs to the bundle. *)
Attempt ==
  [id |-> c.id, stamp |-> Head.stamp,
   attempts |-> IF ram.id = c.id THEN ram.attempts + 1 ELSE 1]

Torn == IF Difference THEN {FALSE, "flash" \in Faults} ELSE {c.torn}

Landed(torn) == [slot EXCEPT ![Spare] = [stamp |-> Head.stamp, sound |-> ~torn]]

Activated == mark' = [mark EXCEPT ![Spare] = "new"] /\ boot' = Spare

UpTo(n, limit) == IF n < limit THEN n + 1 ELSE limit

Enter(id) == entered' = entered \cup {id}

Try(id) == Enter(id) /\ tried' = [tried EXCEPT ![id] = UpTo(@, AttemptsMax + 1)]

(* The payload is not the header's: a difference that does not apply, be it *)
(* for want of a write, a stream that ends early, a hash that disagrees or  *)
(* could not be computed.                                                   *)
WorkDisproved ==
  /\ \E id \in Ids :
       /\ Working(id) /\ Finishing
       /\ ~Head.whole \/ "hash" \in Faults \/ (Difference /\ "write" \in Faults)
       /\ GiveUpAndDelete(id)
  /\ Erasing
  /\ UNCHANGED <<ram, disk, mark, boot, run, history>>

(* The slot does not verify, or is not what was vouched for. *)
WorkUnverified ==
  /\ \E id \in Ids : Working(id) /\ Finishing /\ Head.whole /\ \E torn \in Torn :
       /\ torn \/ "end" \in Faults
       /\ GiveUp(id)
       /\ slot' = Landed(torn)
  /\ UNCHANGED <<ram, disk, mark, boot, run, history>>

Verified(torn) == Finishing /\ Head.whole /\ Matches(torn)

(* The attempt cannot be written down, and is not made. *)
WorkUnrecorded ==
  /\ "save" \in Faults
  /\ \E id \in Ids : Working(id) /\ \E torn \in Torn :
       Verified(torn) /\ GiveUp(id) /\ slot' = Landed(torn) /\ Enter(id)
  /\ ram' = Attempt
  /\ UNCHANGED <<disk, mark, boot, run, tried>>

(* It is written down, and the slot refuses to be the next. *)
WorkInactive ==
  /\ "activate" \in Faults
  /\ \E id \in Ids : Working(id) /\ \E torn \in Torn :
       Verified(torn) /\ GiveUp(id) /\ slot' = Landed(torn) /\ Try(id)
  /\ ram' = Attempt /\ disk' = Attempt
  /\ UNCHANGED <<mark, boot, run>>

(* It is written down and activated, and the node is to restart. *)
WorkApplies ==
  /\ \E id \in Ids : Working(id) /\ \E torn \in Torn :
       Verified(torn) /\ slot' = Landed(torn) /\ Try(id)
       /\ owner' = [owner EXCEPT ![id] = "mine"]
  /\ ram' = Attempt /\ disk' = Attempt
  /\ Activated
  /\ c' = [c EXCEPT !.phase = "idle", !.off = 0, !.node = "leaving"]
  /\ UNCHANGED <<held, run>>

-----------------------------------------------------------------------------
(* The restart.                                                             *)

(* What a restart forgets. *)
Forgotten(record) ==
  /\ owner' = [id \in Ids |-> "none"]
  /\ c' = Starting
  /\ ram' = record

(* The boot loader gives a new image one start, and goes back from one that *)
(* did not confirm itself in it.                                            *)
Restart ==
  /\ \/ /\ mark[boot] = "new"
        /\ mark' = [mark EXCEPT ![boot] = "pending"]
        /\ UNCHANGED boot
     \/ /\ mark[boot] = "pending"
        /\ mark' = [mark EXCEPT ![boot] = "aborted"]
        /\ boot' = Other(boot)
     \/ /\ mark[boot] \notin {"new", "pending"}
        /\ UNCHANGED <<mark, boot>>
  /\ run' = boot'
  /\ Forgotten(disk)
  /\ UNCHANGED <<held, disk, slot, history>>

(* Slip: the slot is activated before the attempt is written down. *)
CutReversed == disk' = disk /\ Activated

(* What of the last steps is done when the power goes between them. *)
Cut == disk' = Attempt /\ UNCHANGED <<mark, boot>>

(* The power goes between the record and the activation. *)
CrashApplying ==
  /\ \E id \in Ids : Working(id) /\ \E torn \in Torn :
       Verified(torn) /\ slot' = Landed(torn) /\ Try(id)
  /\ Cut
  /\ Forgotten(disk')
  /\ UNCHANGED <<held, run>>

-----------------------------------------------------------------------------
(* The probation, and the operator.                                         *)

(* The record is saved, or is not. *)
Saved == disk' \in {ram'} \cup (IF "save" \in Faults THEN {disk} ELSE {})

(* The record is one block of the state, which is saved whole whenever      *)
(* another block has changed. *)
Flush ==
  /\ Up
  /\ disk' = ram
  /\ UNCHANGED <<held, owner, c, ram, flash, history>>

(* The image that runs has run for long enough: the mark lands, and the     *)
(* consumer is told, whose record it is if the stamp is.                    *)
Confirm ==
  /\ Up /\ c.probation
  /\ mark' = [mark EXCEPT ![run] = "valid"]
  /\ c' = [c EXCEPT !.probation = FALSE]
  /\ IF ram.attempts # 0 /\ ram.stamp = MyStamp
     THEN /\ ram' = [ram EXCEPT !.attempts = 0]
          /\ Saved
          /\ Intervention
     ELSE UNCHANGED <<ram, disk, history>>
  /\ UNCHANGED <<held, owner, slot, boot, run>>

RollbackPossible == slot[Spare].sound /\ mark[Spare] = "valid"

(* To the image before, which is started at once. *)
RollBack ==
  /\ RollbackPossible
  /\ mark' = [mark EXCEPT ![run] = "invalid"]
  /\ boot' = Spare /\ run' = Spare

(* The operator goes back, the application condemning the bundle first: a   *)
(* verdict that is saved is as good as all of its attempts.                 *)
AbandonAndRollBack ==
  /\ Up
  /\ RollBack
  /\ IF ram.id = NoId THEN UNCHANGED <<disk, tried>>
     ELSE \/ /\ disk' = [ram EXCEPT !.attempts = AttemptsMax]
             /\ tried' = [tried EXCEPT ![ram.id] = AttemptsMax]
          \/ "save" \in Faults /\ UNCHANGED <<disk, tried>>
  /\ Forgotten(disk')
  /\ UNCHANGED <<held, slot, entered>>

(* The control command that rolls back by itself. *)
CommandedRollBack ==
  /\ Up
  /\ RollBack
  /\ Forgotten(disk)
  /\ UNCHANGED <<held, disk, slot, history>>

(* The operator arms a bundle again. *)
Retry ==
  /\ Up /\ c.enabled /\ c.phase # "writing"
  /\ \E id \in Ids :
       /\ c' = [c EXCEPT !.refused = IF @ = id THEN NoId ELSE @, !.phase = "idle"]
       /\ IF ram.id = id THEN ram' = NoRecord /\ Saved ELSE UNCHANGED <<ram, disk>>
  /\ Intervention
  /\ UNCHANGED <<held, owner, flash>>

(* The configuration switches updates on or off. *)
Enable ==
  /\ Up
  /\ c' = [c EXCEPT !.enabled = ~@]
  /\ UNCHANGED <<held, owner, ram, disk, flash, history>>

Next ==
  \/ Begin \/ Upload \/ Reoffer \/ Delete
  \/ WorkIdles \/ WorkOpenFails \/ WorkStreams \/ WorkStreamFails
  \/ WorkDisproved \/ WorkUnverified \/ WorkUnrecorded \/ WorkInactive \/ WorkApplies
  \/ Restart \/ CrashApplying
  \/ Flush \/ Confirm \/ AbandonAndRollBack \/ CommandedRollBack \/ Retry \/ Enable

Spec == Init /\ [][Next]_vars

-----------------------------------------------------------------------------
(* What the update promises.                                                *)

(* Rollback "makes each individual failure survivable": while an image that *)
(* has not confirmed itself is running, or is about to, the other slot has  *)
(* a sound and confirmed one, which nothing overwrites meanwhile.           *)
AlwaysAWayBack ==
  mark[boot] \in {"new", "pending"} =>
    slot[Other(boot)].sound /\ mark[Other(boot)] = "valid"

(* What is selected for the next start is a whole image, if its bundle says *)
(* what a whole image is: the payload was hashed as it streamed, the slot   *)
(* read back after it, and both compared before the activation.             *)
ActivatedIsProven ==
  [][mark'[boot'] = "new" /\ mark[boot'] # "new"
       => /\ Head.whole
          /\ slot'[boot'].stamp = Head.stamp
          /\ Head.vouched => slot'[boot'].sound]_vars

(* "An attempt that is activated before it is recorded is an attempt that   *)
(* can repeat for ever": whatever is selected for the next start, cut short *)
(* or not, is in the saved record, as one attempt more than before.         *)
NothingUnrecordedRuns ==
  [][mark'[boot'] = "new" /\ mark[boot'] # "new"
       => /\ disk'.id = c.id /\ disk'.stamp = slot'[boot'].stamp
          /\ disk'.attempts >= 1
          /\ ram.id = c.id => disk'.attempts = ram.attempts + 1]_vars

(* Between two interventions a bundle that does not run is tried so many    *)
(* times and no more, however restarts, failures and rollbacks fall, as     *)
(* long as no other gets as far as the record.                              *)
OneBundleIsLimited ==
  \A id \in Ids :
    tried[id] <= AttemptsMax \/ entered \ {id} # {}

(* The comment on the success says of the bundle that stays in the store    *)
(* that "the attempt counter is what stops that retry being infinite".      *)
AttemptsAreLimited == \A id \in Ids : tried[id] <= AttemptsMax

=============================================================================
