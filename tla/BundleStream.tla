---------------------------- MODULE BundleStream ----------------------------
(* How the bytes of a bundle become an image: the work of the update's      *)
(* consumer (iotdata_node_content_ota.h) with the decoder it steps           *)
(* (device/d_module_inflate_esp32.h, device/d_module_inflate_linux.h), the   *)
(* patcher that pulls through it (device/d_module_hpatch.h) and the slot it  *)
(* writes (device/d_module_otaslot_esp32.h).  OtaUpdate has the rest of the  *)
(* update and takes all this for whether a payload is what its header says.  *)
(*                                                                           *)
(* Of the compressed payload each byte is a symbol that expands to so many   *)
(* bytes, which are numbered; the symbols end with the last.  The decoders   *)
(* themselves are the ROM's and zlib's: they take a symbol when what they    *)
(* owe fits the room they were given, and owe what does not fit.             *)
EXTENDS Naturals, Sequences, SequencesExt

CONSTANTS Wire,      \* a chunk of the payload
          Plain,     \* the buffer a decoder fills
          Window,    \* TINFL_LZ_DICT_SIZE
          Lead,      \* the patch's own header
          Cache,     \* HPATCH_CACHE_BYTES
          Codecs,    \* how payloads are coded, and by which decoder read
          Streams    \* the payloads, as what each symbol expands to

BundleStreamAssumption ==
  /\ {Wire, Plain, Window, Lead, Cache} \subseteq Nat \ {0}
  /\ Codecs \subseteq {"none", "tinfl", "zlib"}
  /\ Streams \subseteq Seq(Nat)

VARIABLES bundle,  \* what is applied
          apply,   \* the consumer: its phase, bytes consumed and made
          codec,   \* the decoder
          pull,    \* the patcher's read in progress, and what it got so far
          slot,    \* the spare slot's handle, and the bytes in it, by number
          hash,    \* the wire bytes hashed, in order, if hashing goes on
          faulted  \* history: a call failed

vars == <<bundle, apply, codec, pull, slot, hash, faulted>>

Least(m, n) == IF m < n THEN m ELSE n
Total(s, n) == LET sum[i \in 0 .. n] == IF i = 0 THEN 0 ELSE s[i] + sum[i - 1] IN sum[n]
Numbers(from, n) == [i \in 1 .. n |-> from + i]

Produces(b) == IF b.codec = "none" THEN Len(b.stream) ELSE Total(b.stream, Len(b.stream))
OutputSize == IF bundle.honest THEN Produces(bundle) ELSE Produces(bundle) - 1
Intact == bundle.honest /\ bundle.cut = Len(bundle.stream)

Fresh == [inside |-> 0, made |-> 0, window |-> [i \in 0 .. Window - 1 |-> 0],
          at |-> 0, pending |-> 0, done |-> FALSE]
NoPull == [len |-> 0, done |-> 0, got |-> 0, dry |-> FALSE]

Idle == /\ apply = [phase |-> "idle", off |-> 0, out |-> 0]
        /\ codec = Fresh /\ pull = NoPull
        /\ slot = [open |-> FALSE, image |-> << >>]
        /\ hash = [open |-> FALSE, over |-> << >>] /\ faulted = FALSE

(* Payloads may stop short, and headers may say the wrong size. *)
Init == /\ \E s \in Streams, f \in {"full", "delta"}, k \in Codecs,
              h \in BOOLEAN, short \in {0, 1} :
             /\ Len(s) > short /\ Produces([codec |-> k, stream |-> s]) > 1
             /\ k = "none" => h \/ short = 0  \* one short in both is whole again
             /\ bundle = [form |-> f, codec |-> k, stream |-> s, honest |-> h, cut |-> Len(s) - short]
        /\ Idle
-----------------------------------------------------------------------------
(* The decoders.                                                            *)

Owed(n) == codec.inside + Total(bundle.stream, apply.off + n) - Total(bundle.stream, apply.off)

(* A symbol is taken as long as all that is owed fits. *)
Takes(avail, room) ==
  CHOOSE n \in 0 .. avail :
    /\ \A m \in 0 .. n - 1 : Owed(m) <= room
    /\ n = avail \/ Owed(n) > room

Ended(n, rest) == apply.off + n = Len(bundle.stream) /\ rest = 0

(* What a step hands over: how much input it took, the bytes it gives, and  *)
(* the decoder after it.                                                    *)
Stepped(used, given, after) == [used |-> used, given |-> given, after |-> after]

(* tinfl decodes into a window, as much as fits it, and the window is handed *)
(* over piece by piece before more is decoded.                              *)
Handed(z, room) ==
  LET n == Least(z.pending, room)
  IN  [given |-> [i \in 1 .. n |-> z.window[z.at + i - 1]],
       after |-> [z EXCEPT !.at = @ + n, !.pending = @ - n]]

Decoded(avail) ==
  LET ofs == codec.made % Window
      room == Window - ofs
      n == Takes(avail, room)
      m == Least(Owed(n), room)
  IN  [used |-> n,
       after |-> [codec EXCEPT
         !.inside = Owed(n) - m, !.made = @ + m, !.at = ofs, !.pending = m,
         !.window = [i \in 0 .. Window - 1 |->
                       IF i >= ofs /\ i < ofs + m THEN codec.made + i - ofs + 1 ELSE @[i]],
         !.done = Ended(n, Owed(n) - m)]]

TinflStep(avail, room) ==
  IF codec.pending > 0
  THEN LET h == Handed(codec, room) IN Stepped(0, h.given, h.after)
  ELSE IF codec.done THEN Stepped(0, << >>, codec)
  ELSE LET d == Decoded(avail)
           h == Handed(d.after, room)
       IN  Stepped(d.used, h.given, h.after)

(* zlib decodes into the caller's buffer. *)
ZlibStep(avail, room) ==
  LET n == Takes(avail, room)
      m == Least(Owed(n), room)
  IN  Stepped(n, Numbers(codec.made, m),
              [codec EXCEPT !.inside = Owed(n) - m, !.made = @ + m,
                            !.done = Ended(n, Owed(n) - m)])

Copied(avail, room) ==
  LET n == Least(avail, room) IN Stepped(n, Numbers(apply.off, n), codec)

Step(avail, room) ==
  CASE bundle.codec = "none" -> Copied(avail, room)
    [] bundle.codec = "tinfl" -> TinflStep(avail, room)
    [] bundle.codec = "zlib" -> ZlibStep(avail, room)

(* Without input tinfl has to have something left, or fails. *)
StepFails(avail) ==
  bundle.codec = "tinfl" /\ avail = 0 /\ codec.pending = 0 /\ ~codec.done /\ codec.inside = 0

(* The stream ended, rather than ran out.  zlib is asked for one byte more. *)
TinflEnds == codec.done /\ codec.pending = 0
ZlibEnds == apply.off = Len(bundle.stream) /\ codec.inside <= 1

Ends == CASE bundle.codec = "none" -> TRUE
          [] bundle.codec = "tinfl" -> TinflEnds
          [] bundle.codec = "zlib" -> ZlibEnds
-----------------------------------------------------------------------------
(* The work.                                                                *)

Remain == bundle.cut - apply.off

Closed == [slot EXCEPT !.open = FALSE]

GiveUp(failure) ==
  /\ apply' = [apply EXCEPT !.phase = "failed"]
  /\ slot' = IF apply.phase = "idle" THEN slot ELSE Closed
  /\ faulted' = (faulted \/ failure)
  /\ codec' = Fresh /\ pull' = NoPull /\ UNCHANGED <<bundle, hash>>

(* The slot is opened and erased, the hash and the decoder begin; either of *)
(* slot and decoder may refuse, and behind a decoder that does the slot is   *)
(* left open.                                                               *)
Opens ==
  /\ apply.phase = "idle"
  /\ \/ GiveUp(TRUE)
     \/ /\ bundle.codec # "none"
        /\ apply' = [apply EXCEPT !.phase = "failed"] /\ faulted' = TRUE
        /\ slot' = [open |-> TRUE, image |-> << >>]
        /\ hash' = [open |-> TRUE, over |-> << >>]
        /\ UNCHANGED <<bundle, codec, pull>>
     \/ /\ apply' = [phase |-> IF bundle.form = "full" THEN "writing" ELSE "pulling",
                     off |-> 0, out |-> 0]
        /\ slot' = [open |-> TRUE, image |-> << >>]
        /\ hash' = [open |-> TRUE, over |-> << >>]
        /\ codec' = Fresh
        /\ pull' = [NoPull EXCEPT !.len = Lead]
        /\ UNCHANGED <<bundle, faulted>>

(* Once each, and in order, or not at all: a hash that failed is closed. *)
Hashed(used, whole) ==
  hash' = IF ~hash.open THEN hash
          ELSE IF whole \/ used = 0 THEN [hash EXCEPT !.over = @ \o Numbers(apply.off, used)]
          ELSE [hash EXCEPT !.open = FALSE]

(* One chunk of a whole image, and one step of its decoder. *)
Writes ==
  /\ apply.phase = "writing" /\ bundle.form = "full" /\ Remain > 0
  /\ LET s == Step(Least(Remain, Wire), Plain)
         stuck == s.used = 0 /\ s.given = << >>
         fits == bundle.codec = "none" \/ apply.out + Len(s.given) <= OutputSize
     IN  \/ GiveUp(TRUE)                     \* not read, or not written
         \/ (stuck \/ ~fits) /\ GiveUp(FALSE)
         \/ /\ ~stuck /\ fits
            /\ apply' = [apply EXCEPT !.off = @ + s.used, !.out = @ + Len(s.given)]
            /\ slot' = [slot EXCEPT !.image = @ \o s.given]
            /\ codec' = s.after
            /\ \E whole \in BOOLEAN : Hashed(s.used, whole) /\ faulted' = (faulted \/ ~whole)
            /\ UNCHANGED <<bundle, pull>>

(* A slip: the read ends with the payload, whatever the decoder still has.  *)
PullingPayload == pull.done < pull.len /\ ~pull.dry /\ Remain > 0

(* The patcher's read goes on until it has what it asked for, or nothing    *)
(* comes any more.                                                          *)
Pulling == pull.done < pull.len /\ ~pull.dry

(* One turn of the loop under the patcher's read. *)
Pulls ==
  /\ apply.phase = "pulling" /\ Pulling
  /\ LET avail == Least(Remain, Wire)
         s == Step(avail, pull.len - pull.done)
         fails == StepFails(avail)
     IN  \/ GiveUp(TRUE)
         \/ fails /\ GiveUp(FALSE)
         \/ /\ ~fails
            /\ apply' = [apply EXCEPT !.off = @ + s.used]
            /\ codec' = s.after
            /\ pull' = [pull EXCEPT !.done = @ + Len(s.given),
                                    !.dry = s.used = 0 /\ s.given = << >>]
            /\ \E whole \in BOOLEAN : Hashed(s.used, whole) /\ faulted' = (faulted \/ ~whole)
            /\ UNCHANGED <<bundle, slot>>

Got == pull.got + pull.done
PatchSize == Produces(bundle)

(* What the patch makes of the image that runs. *)
Rebuilt == Numbers(0, OutputSize)

(* What the patcher does with what it got: a short read is the end of the   *)
(* patch to it, its header must say the size the bundle's says, and what it *)
(* makes of the patch and of the image that runs goes to the slot.          *)
Patches ==
  /\ apply.phase = "pulling" /\ ~Pulling
  /\ \/ ((Got < PatchSize /\ pull.done < pull.len) \/ ~bundle.honest) /\ GiveUp(FALSE)
     \/ /\ Got < PatchSize /\ pull.done = pull.len /\ bundle.honest
        /\ pull' = [len |-> Cache, done |-> 0, got |-> Got, dry |-> FALSE]
        /\ UNCHANGED <<bundle, apply, codec, slot, hash, faulted>>
     \/ /\ Got >= PatchSize /\ bundle.honest
        /\ \/ GiveUp(TRUE)                  \* the base not read, or the slot not written
           \/ /\ apply' = [apply EXCEPT !.phase = "writing", !.out = OutputSize]
              /\ slot' = [slot EXCEPT !.image = Rebuilt]
              /\ UNCHANGED <<bundle, codec, pull, hash, faulted>>

Digested == hash.open /\ hash.over = Numbers(0, bundle.cut)

(* The payload is all there: the stream ended, it made what the header says, *)
(* its hash is the header's, and the slot takes it.                         *)
Finishes ==
  /\ apply.phase = "writing" /\ (bundle.form = "delta" \/ Remain = 0)
  /\ \/ ~(Ends /\ apply.out = OutputSize /\ Digested) /\ GiveUp(FALSE)
     \/ /\ Ends /\ apply.out = OutputSize /\ Digested
        /\ \/ GiveUp(TRUE)                  \* esp_ota_end() refuses
           \/ /\ apply' = [apply EXCEPT !.phase = "applied"]
              /\ slot' = Closed
              /\ UNCHANGED <<bundle, codec, pull, hash, faulted>>

(* The next start; a handle that was left open is aborted by the next begin. *)
Restarts == /\ apply.phase \in {"failed", "applied"}
            /\ apply' = [phase |-> "idle", off |-> 0, out |-> 0]
            /\ codec' = Fresh /\ pull' = NoPull /\ faulted' = FALSE
            /\ slot' = [open |-> FALSE, image |-> << >>]
            /\ hash' = [open |-> FALSE, over |-> << >>]
            /\ UNCHANGED bundle

Next == \/ Opens \/ Writes \/ Pulls \/ Patches \/ Finishes \/ Restarts
-----------------------------------------------------------------------------
(* What is applied is the image the header describes, every byte of it in   *)
(* its place, out of a stream that ended, under a hash that saw every byte  *)
(* of the payload once: whatever was short, refused or wrong on the way.    *)
(* (One byte more than the header knows of is lost in zlib's last step.)    *)
AppliedIsWhole ==
  apply.phase = "applied" =>
    /\ ~slot.open
    /\ bundle.cut = Len(bundle.stream)
    /\ bundle.codec # "zlib" => bundle.honest
    /\ slot.image = Numbers(0, OutputSize)
    /\ hash.over = Numbers(0, bundle.cut)

(* The patcher's last read reaches past the patch's end.                    *)
ReadsPastEnd == PatchSize < Lead \/ (PatchSize - Lead) % Cache # 0
LastShows == bundle.stream[Len(bundle.stream)] = 0

(* An intact difference is applied, however much of it a decoder had         *)
(* swallowed when the payload ran out ("running out of PAYLOAD is not        *)
(* running out of PATCH"), as long as the patcher reads to the patch's end. *)
DifferenceIsDrained ==
  apply.phase = "failed" /\ Intact /\ ~faulted /\ bundle.form = "delta" =>
    bundle.codec # "none" /\ ~ReadsPastEnd

(* And so is an intact image, by a decoder that takes no more of it than its *)
(* output fits.                                                             *)
ImageIsTaken ==
  apply.phase = "failed" /\ Intact /\ ~faulted /\ bundle.form = "full" =>
    bundle.codec = "tinfl" \/ (bundle.codec = "zlib" /\ ~LastShows)

StreamIsSound == AppliedIsWhole /\ DifferenceIsDrained /\ ImageIsTaken

(* The seam says that step() takes "as much input as the output it produces *)
(* will fit"; then a bundle with nothing wrong is never thrown away.        *)
IntactIsNeverRefused == ~(apply.phase = "failed" /\ Intact /\ ~faulted)
=============================================================================
