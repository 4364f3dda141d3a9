---------------------------- MODULE ContentStore ----------------------------
(* The content store of a node (iotdata_node_content.h) over a directory    *)
(* that can fail and a node that can lose its power: files arrive under a   *)
(* scratch id, are renamed once their checksum agrees, and are offered to   *)
(* consumers, who may own them, be ticked on them, and have them deleted.   *)
(*                                                                          *)
(* The loop is single-threaded, so a call is one step.  Consumers are       *)
(* callbacks that answer anything their documented answers allow.  A        *)
(* checksum stands for the bytes it is of: the model has no collisions.     *)
(* Elapsed times are counted up to the limits they are compared with.  The  *)
(* REBOOT bit only colours the event of a tick and is left out: the node    *)
(* may restart at any time anyway.                                          *)
EXTENDS FileStore, FiniteSets, SequencesExt

CONSTANTS RealIds,    \* the ids that are not scratch, a subset of Ids
          Payloads,   \* the files people upload: non-empty sequences of blocks
          Bent,       \* a block that is no block of any payload
          Consumers,  \* their places in the table, asked in this order
          Claimable,  \* for each consumer the ids it may have a use for
          Idle,       \* the consumers without a work function
          OwnedMax,   \* IOTDATA_NODE_CONTENT_OWNED_MAX
          ScanMax,    \* IOTDATA_NODE_CONTENT_SCAN_MAX
          Timeout,    \* IOTDATA_NODE_CONTENT_INSERT_TIMEOUT_S
          Reoffer     \* IOTDATA_NODE_CONTENT_REOFFER_S

ASSUME ContentAssumption ==
  /\ IsFiniteSet(Ids) /\ RealIds \subseteq Ids
  /\ Bent \in Blocks /\ Payloads \subseteq Seq(Blocks \ {Bent}) \ {<< >>}
  /\ Claimable \in [Consumers -> SUBSET Ids]
  /\ Idle \subseteq Consumers
  /\ {OwnedMax, ScanMax, Timeout, Reoffer} \subseteq Nat \ {0}

VARIABLES store,    \* what is in the directory
          owned,    \* owned[0 .. owns - 1]; `bytes' is history: what the owner was last shown
          rx,       \* the insert in flight
          begun,    \* begin() was called since the node started
          event,    \* whether the last tick reported a failed upload, of the events there are
          strays    \* history: scratch its owner strays back since begin()

vars == <<store, owned, rx, begun, event, strays>>

ScratchIds == Ids \ RealIds

(* What a consumer says of a file, of the documented answers. *)
Answers == {"none", "mine", "work", "delete"}

NoInsert == [active |-> FALSE]

Inserts == {NoInsert} \cup
  [active : {TRUE}, failed : BOOLEAN, id : RealIds, scratch : ScratchIds,
   want : Payloads, fed : Seq(Blocks), idle : 0 .. Timeout]

Owners == [id : Ids, owner : Consumers, working : BOOLEAN, age : 0 .. Reoffer,
           bytes : Seq(Blocks)]

TypeOK ==
  /\ store \in Stores
  /\ owned \in Seq(Owners) /\ Len(owned) <= OwnedMax
  /\ rx \in Inserts
  /\ begun \in BOOLEAN
  /\ event \in {"none", "failed"}
  /\ strays \subseteq ScratchIds

-----------------------------------------------------------------------------
(* The table of owners.                                                     *)

Owned(o, id) == \E i \in DOMAIN o : o[i].id = id

(* A removal moves the last entry down. *)
Disown(o, id) ==
  IF ~Owned(o, id) THEN o
  ELSE LET i == CHOOSE j \in DOMAIN o : o[j].id = id
       IN Front([o EXCEPT ![i] = Last(o)])

Busy == \E i \in DOMAIN owned : owned[i].working

(* First claimant wins: what comes of asking them all, before it is asked. *)
Declined == [says |-> "none"]
Verdicts(id) == {Declined} \cup
  [says : Answers \ {"none"}, by : {k \in Consumers : id \in Claimable[k]}]

(* A fresh offer supersedes any previous claim on the id. *)
Superseded(o, id, v) == Disown(o, id)

Full(o) == Len(o) >= OwnedMax

(* Announcing an id, `s' being the store and the owners. *)
Announced(s, id, v) ==
  LET others == Superseded(s.owned, id, v)
      record == [id |-> id, owner |-> v.by, working |-> v.says = "work",
                 age |-> 0, bytes |-> s.store.file[id]]
  IN IF ~Stat(s.store, id) THEN s
     ELSE CASE v.says = "none"   -> [s EXCEPT !.owned = others]
            [] v.says = "delete" -> [store |-> Destroy(s.store, id), owned |-> others]
            [] OTHER -> [s EXCEPT !.owned = IF Full(others) THEN others
                                            ELSE Append(others, record)]

-----------------------------------------------------------------------------
(* Starting and stopping.                                                   *)

(* A directory to start with: any files placed there whole. *)
Init ==
  /\ store \in {[file |-> f, wr |-> Closed] :
                  f \in [Ids -> {Absent} \cup Payloads]}
  /\ \A s \in ScratchIds : store.file[s] = Absent
  /\ owned = << >>
  /\ rx = NoInsert
  /\ begun = FALSE
  /\ event = "none"
  /\ strays = {}

(* The ids a walk of the directory yields, as many as are looked at. *)
Scans ==
  LET here == {id \in Ids : Stat(store, id)}
      full == IF Cardinality(here) < ScanMax THEN Cardinality(here) ELSE ScanMax
  IN UNION {SetToSeqs(part) : part \in {p \in SUBSET here : Cardinality(p) = full}}

(* The passes over them: those of a kind are offered; the scratch that nobody *)
(* took is reaped.                                                           *)
OfferAll(s, ids, kind, verdict) ==
  LET after[n \in 0 .. Len(ids)] ==
        IF n = 0 THEN s
        ELSE IF ids[n] \in kind THEN Announced(after[n - 1], ids[n], verdict[ids[n]])
        ELSE after[n - 1]
  IN after[Len(ids)]

Reaped(s, ids) ==
  LET after[n \in 0 .. Len(ids)] ==
        IF n = 0 THEN s
        ELSE IF ids[n] \in ScratchIds /\ ~Owned(after[n - 1].owned, ids[n])
               THEN [after[n - 1] EXCEPT !.store = Destroy(@, ids[n])]
        ELSE after[n - 1]
  IN after[Len(ids)]

Begin ==
  /\ ~begun
  /\ \E ids \in Scans : \E verdict \in [ToSet(ids) -> UNION {Verdicts(id) : id \in Ids}] :
       /\ \A id \in ToSet(ids) : verdict[id] \in Verdicts(id)
       /\ LET found   == [store |-> store, owned |-> owned]
              offered == OfferAll(found, ids, ScratchIds, verdict)
              s       == OfferAll(Reaped(offered, ids), ids, RealIds, verdict)
          IN store' = s.store /\ owned' = s.owned
       /\ strays' = {id \in ScratchIds : Stat(store, id) /\ id \notin ToSet(ids)}
  /\ begun' = TRUE
  /\ event' = "none"
  /\ UNCHANGED rx

End ==
  /\ store' = IF rx.active THEN Destroy(store, rx.scratch) ELSE store
  /\ owned' = << >>
  /\ rx' = NoInsert
  /\ begun' = FALSE
  /\ event' = "none"
  /\ strays' = {}

(* The node restarts, having saved nothing of this. *)
PowerCycle(fs) ==
  /\ store' \in Survivors(fs)
  /\ owned' = << >>
  /\ rx' = NoInsert
  /\ begun' = FALSE
  /\ event' = "none"
  /\ strays' = {}

Crash == PowerCycle(store)

-----------------------------------------------------------------------------
(* The insert: staged as scratch, renamed on proof.                         *)

Free == {id \in ScratchIds : ~Stat(store, id)}

Fits(size) == FoldSet(LAMBDA id, n : Bytes(store, id) + n, 0, Ids) + size <= Budget

(* Slip: an upload is taken beside a consumer at work. *)
AdmitsAny == ~rx.active

Admits == ~rx.active /\ ~Busy

(* A refusal changes nothing, whether it is the module's or the store's. *)
InsertBegin ==
  /\ begun
  /\ Admits
  /\ Free # {}
  /\ \E id \in RealIds, p \in Payloads :
       /\ Fits(Len(p))
       /\ LET scratch == CHOOSE n \in Free : \A m \in Free : n <= m
          IN /\ store' = Create(store, scratch, Len(p))
             /\ rx' = [active |-> TRUE, failed |-> FALSE, id |-> id,
                       scratch |-> scratch, want |-> p, fed |-> << >>, idle |-> 0]
  /\ event' = "none"
  /\ UNCHANGED <<owned, begun, strays>>

Ready == Len(rx.fed) = Len(rx.want)

Open == rx.active /\ ~rx.failed /\ ~Ready

(* The next block, as it was sent or bent on the way. *)
InsertWrite ==
  /\ Open
  /\ \E b \in {rx.want[Len(rx.fed) + 1], Bent} :
       IF Writable(store, rx.scratch, Len(rx.fed))
       THEN /\ store' = Write(store, rx.scratch, b)
            /\ rx' = [rx EXCEPT !.fed = Append(@, b), !.idle = 0]
       ELSE /\ rx' = [rx EXCEPT !.failed = TRUE, !.idle = 0]
            /\ UNCHANGED store
  /\ event' = "none"
  /\ UNCHANGED <<owned, begun, strays>>

(* The store does not take it. *)
InsertWriteRefused ==
  /\ Open
  /\ "write" \in Faults
  /\ rx' = [rx EXCEPT !.failed = TRUE, !.idle = 0]
  /\ event' = "none"
  /\ UNCHANGED <<store, owned, begun, strays>>

(* A block at another offset: the one before it went missing, or came twice. *)
InsertMisplaced ==
  /\ Open
  /\ rx' = [rx EXCEPT !.failed = TRUE]
  /\ event' = "none"
  /\ UNCHANGED <<store, owned, begun, strays>>

(* The sender gives up, or sent what nobody can decode. *)
InsertAbort ==
  /\ rx.active /\ ~rx.failed
  /\ rx' = [rx EXCEPT !.failed = TRUE]
  /\ event' = "none"
  /\ UNCHANGED <<store, owned, begun, strays>>

-----------------------------------------------------------------------------
(* The tick: an insert in flight, else one working owner, else one owner    *)
(* that is due to be asked again.                                           *)

(* Slip: only an upload that has begun to arrive times out. *)
TimedOutLater == ~Ready /\ rx.idle >= Timeout /\ rx.fed # << >>

TimedOut == ~Ready /\ rx.idle >= Timeout

(* Slip: the number of blocks is taken for proof. *)
ProvenByLength == Ready

Proven == Ready /\ rx.fed = rx.want

(* Slip: the failed upload takes what it was to replace with it. *)
DiscardedBoth == Destroy(Destroy(store, rx.scratch), rx.id)

Discarded == Destroy(store, rx.scratch)

TickInsertFails ==
  /\ rx.failed \/ TimedOut \/ (Ready /\ ~Proven)
  /\ store' = Discarded
  /\ rx' = NoInsert
  /\ event' = "failed"
  /\ UNCHANGED <<owned, begun, strays>>

(* What was under the id before goes first. *)
Cleared == IF Stat(store, rx.id) THEN Destroy(store, rx.id) ELSE store

Landing == ~rx.failed /\ Proven

Lands ==
  /\ Landing
  /\ Stat(store, rx.scratch)
  /\ \E bytes \in Flushed(store, rx.scratch), v \in Verdicts(rx.id) :
       LET landed == Complete(Rename(Cleared, rx.scratch, rx.id, bytes), rx.id)
           s == Announced([store |-> landed, owned |-> owned], rx.id, v)
       IN store' = s.store /\ owned' = s.owned
  /\ rx' = NoInsert
  /\ event' = "none"
  /\ UNCHANGED <<begun, strays>>

(* The rename is refused, or there is no scratch to rename. *)
RenameFails ==
  /\ Landing
  /\ ~Stat(store, rx.scratch) \/ "rename" \in Faults
  /\ store' = Destroy(Cleared, rx.scratch)
  /\ rx' = NoInsert
  /\ event' = "failed"
  /\ UNCHANGED <<owned, begun, strays>>

TickInsert == begun /\ rx.active /\ (TickInsertFails \/ Lands \/ RenameFails)

(* The power goes between the destroy and the rename. *)
CrashLanding == begun /\ rx.active /\ Landing /\ PowerCycle(Cleared)

(* What an owner's answer does to its record and its file. *)
Answered(i, says, bytes) ==
  LET id == owned[i].id
  IN /\ store' = IF says = "delete" THEN Destroy(store, id) ELSE store
     /\ owned' = IF says \in {"delete", "none"} THEN Disown(owned, id)
                 ELSE [owned EXCEPT ![i].working = says = "work", ![i].age = 0,
                                    ![i].bytes = bytes]
     /\ strays' = IF says = "none" THEN strays \cup ({id} \cap ScratchIds) ELSE strays

(* One bounded slice for the first working owner; one that has nothing to   *)
(* tick with stops working.                                                 *)
TickWorks ==
  /\ begun /\ ~rx.active /\ Busy
  /\ LET i == CHOOSE j \in DOMAIN owned :
                owned[j].working /\ \A k \in 1 .. j - 1 : ~owned[k].working
     IN IF owned[i].owner \in Idle
        THEN /\ owned' = [owned EXCEPT ![i].working = FALSE]
             /\ UNCHANGED <<store, strays>>
        ELSE \E says \in Answers : Answered(i, says, owned[i].bytes)
  /\ event' = "none"
  /\ UNCHANGED <<rx, begun>>

Due(i) == ~owned[i].working /\ owned[i].age >= Reoffer

(* The first owner that is due is asked again, if its file is still there.  *)
TickReoffers ==
  /\ begun /\ ~rx.active /\ ~Busy
  /\ \E i \in DOMAIN owned :
       /\ Due(i) /\ \A k \in 1 .. i - 1 : ~Due(k)
       /\ IF Stat(store, owned[i].id)
          THEN \E says \in Answers : Answered(i, says, store.file[owned[i].id])
          ELSE /\ owned' = Disown(owned, owned[i].id)
               /\ UNCHANGED <<store, strays>>
  /\ event' = "none"
  /\ UNCHANGED <<rx, begun>>

-----------------------------------------------------------------------------
(* Commands, and time.                                                      *)

(* The owner is to be asked at the next tick. *)
AskAgain ==
  /\ \E i \in DOMAIN owned :
       /\ ~owned[i].working
       /\ owned' = [owned EXCEPT ![i].age = Reoffer]
  /\ event' = "none"
  /\ UNCHANGED <<store, rx, begun, strays>>

Deletable(id) ==
  /\ Stat(store, id)
  /\ ~(rx.active /\ rx.id = id)
  /\ \A i \in DOMAIN owned : owned[i].id = id => ~owned[i].working

Delete ==
  /\ begun
  /\ \E id \in Ids :
       /\ Deletable(id)
       /\ store' = Destroy(store, id)
       /\ owned' = Disown(owned, id)
       /\ strays' = strays \ {id}
  /\ event' = "none"
  /\ UNCHANGED <<rx, begun>>

UpTo(n, limit) == IF n < limit THEN n + 1 ELSE limit

Elapse ==
  /\ rx' = IF rx.active THEN [rx EXCEPT !.idle = UpTo(@, Timeout)] ELSE rx
  /\ owned' = [i \in DOMAIN owned |-> [owned[i] EXCEPT !.age = UpTo(@, Reoffer)]]
  /\ event' = "none"
  /\ UNCHANGED <<store, begun, strays>>

Next ==
  \/ Begin \/ End \/ Crash \/ CrashLanding
  \/ InsertBegin \/ InsertWrite \/ InsertWriteRefused \/ InsertMisplaced \/ InsertAbort
  \/ TickInsert \/ TickWorks \/ TickReoffers
  \/ AskAgain \/ Delete \/ Elapse

Spec == Init /\ [][Next]_vars

(* The loop ticks, and time passes. *)
FairSpec == Spec /\ WF_vars(TickInsert) /\ WF_vars(Elapse)

-----------------------------------------------------------------------------
(* What the store promises.                                                 *)

(* The header says of scratch and rename that "a file at a real id is one   *)
(* that passed its checksum": across failures of the store and of the       *)
(* power, what is at a real id is a whole upload, or was placed there so.   *)
RealIsProven == \A id \in RealIds : Stat(store, id) => store.file[id] \in Payloads

(* A consumer that is ticked has its file: neither an upload that replaces  *)
(* it, nor a delete command, nor another consumer takes it away meanwhile.  *)
WorkersHaveTheirFile ==
  \A i \in DOMAIN owned : owned[i].working => Stat(store, owned[i].id)

(* A claim is of the bytes that are there: bytes that replace others under  *)
(* the same id do not inherit the claim, and nobody claims an id twice.     *)
ClaimsAreOfTheseBytes ==
  /\ \A i, j \in DOMAIN owned : owned[i].id = owned[j].id => i = j
  /\ \A i \in DOMAIN owned :
       Stat(store, owned[i].id) => store.file[owned[i].id] = owned[i].bytes

(* Scratch dies with what was producing it: once begin() was through, a     *)
(* scratch file is of the insert in flight or of a consumer that owns it,   *)
(* unless there was more than begin() looks at or its owner gave it back.   *)
NoStrayScratch ==
  begun => \A id \in ScratchIds :
             Stat(store, id) => \/ rx.active /\ rx.scratch = id
                                \/ Owned(owned, id)
                                \/ id \in strays

(* The file open for writing is the insert's, so that no handle outlives it *)
(* and no other file is written to.                                         *)
WriterIsTheInserts == store.wr # Closed => rx.active /\ rx.scratch = store.wr.id

(* Together, with the types: who works has its file, who claims has these   *)
(* bytes, every scratch file is somebody's, and the writer is the insert's.  *)
StoreAgrees ==
  /\ TypeOK /\ WorkersHaveTheirFile /\ ClaimsAreOfTheseBytes
  /\ NoStrayScratch /\ WriterIsTheInserts

(* An upload costs no file but the one it replaces, and that not before all *)
(* of its bytes are in and proven.                                          *)
UploadCostsOnlyWhatItReplaces ==
  [][\A id \in RealIds :
       Stat(store, id) /\ store'.file[id] # store.file[id]
         => \/ UNCHANGED rx /\ store'.file[id] = Absent
            \/ rx.active /\ ~rx.failed /\ rx.id = id /\ rx.fed = rx.want]_vars

(* The comment on the landing says "a failed upload never costs a good      *)
(* file". *)
FailedUploadCostsNothing ==
  [][event' = "failed" => \A id \in RealIds : store'.file[id] = store.file[id]]_vars

(* An upload ends, however its sender goes away. *)
InsertResolves == rx.active ~> ~rx.active

=============================================================================
