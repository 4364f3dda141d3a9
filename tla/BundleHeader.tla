---------------------------- MODULE BundleHeader ----------------------------
(* The header of a firmware bundle (iotdata_node_content_ota.h): its records *)
(* walked one by one up to the end marker, the checklist, and what the claim *)
(* answers.  The file may be cut anywhere, hold records of newer bundlers,   *)
(* repeat one, or have one of another width.                                *)
(* A record is one unit long, the payload counts in units too.               *)
EXTENDS Naturals, Sequences

CONSTANTS Records,    \* what a bundler may write: [key, value, fits]
          Devices,    \* what a node says of itself, see Device
          MaxRecords, \* records walked before the model gives up
          Payloads    \* units of payload that may be held behind the header

Unknown == 0          \* NULL, or 0 where 0 means so: the check is skipped

VARIABLES file,       \* the records walked so far
          head,       \* iotdata_node_ota_header_t
          device,     \* iotdata_node_ota_device_t, and the consumer's seams
          answer      \* of the claim; "" while the header is being walked

vars == <<file, head, device, answer>>

NoHeader == [app |-> Unknown, stamp |-> Unknown, form |-> "full", codec |-> "none",
             downgrade |-> FALSE, bootloader |-> 0, output |-> 0,
             base |-> Unknown, payload |-> 0, measured |-> FALSE]

Init == /\ file = <<>> /\ head = NoHeader /\ answer = ""
        /\ device \in Devices

-----------------------------------------------------------------------------
(* The walk.                                                                *)

\* A number or a text of a width the key does not expect is the default, a
\* hash of such a width is passed over; unknown keys are skipped.
Field(h, r) ==
  CASE r.key = "payload" -> [h EXCEPT !.payload = IF r.fits THEN r.value ELSE 0,
                                      !.measured = TRUE]
    [] r.key = "base" -> IF r.fits THEN [h EXCEPT !.base = r.value] ELSE h
    [] r.key \in DOMAIN NoHeader \ {"payload", "base", "measured"} ->
         [h EXCEPT ![r.key] = IF r.fits THEN r.value ELSE NoHeader[r.key]]
    [] OTHER -> h

Walk == /\ answer = "" /\ Len(file) < MaxRecords
        /\ \E r \in Records : file' = Append(file, r) /\ head' = Field(head, r)
        /\ UNCHANGED <<device, answer>>

\* No magic, somebody else's file; or cut, or an end marker with a length.
Foreign == /\ answer = "" /\ file = <<>> /\ answer' = "none"
           /\ UNCHANGED <<file, head, device>>
Broken == /\ answer = "" /\ answer' = "mine"
          /\ UNCHANGED <<file, head, device>>

-----------------------------------------------------------------------------
(* The verdict.                                                             *)

Ours(h) == device.app = Unknown \/ h.app = Unknown \/ h.app = device.app

\* A slip: the length is asked of the header that is there, not of the file.
PassesUnmeasured(h, held) ==
  /\ Ours(h)
  /\ h.measured => h.payload > 0
  /\ h.form \in {"full", "delta"}
  /\ h.codec \in device.decodes \union {"none"}
  /\ h.bootloader <= device.bootloader
  /\ h.output > 0 /\ (device.slot = Unknown \/ h.output <= device.slot)
  /\ h.form = "delta" => /\ h.base # Unknown
                         /\ device.base = Unknown \/ h.base = device.base
  /\ device.stamp # Unknown /\ h.stamp # Unknown =>
       h.stamp > device.stamp \/ h.downgrade

\* iotdata_node_ota_check: everything from the cheapest refusal to the one
\* that is a policy.  `held' is what is behind the header.
Passes(h, held) ==
  /\ Ours(h)
  /\ h.measured => h.payload = held
  /\ h.form \in {"full", "delta"}
  /\ h.codec \in device.decodes \union {"none"}
  /\ h.bootloader <= device.bootloader
  /\ h.output > 0 /\ (device.slot = Unknown \/ h.output <= device.slot)
  /\ h.form = "delta" => /\ h.base # Unknown
                         /\ device.base = Unknown \/ h.base = device.base
  /\ device.stamp # Unknown /\ h.stamp # Unknown =>
       h.stamp > device.stamp \/ h.downgrade

\* What this consumer was given to work with, whatever the device declares.
Workable(h) == /\ h.form = "delta" => device.patches
               /\ h.codec # "none" => device.inflates

\* The end marker, and what the claim says of the whole.
Ends == /\ answer = ""
        /\ \E held \in Payloads :
             /\ answer' = IF ~Ours(head) THEN "none"
                          ELSE IF Passes(head, held) /\ Workable(head) THEN "work"
                          ELSE "mine"
             /\ file' = Append(file, [key |-> "end", value |-> held, fits |-> TRUE])
        /\ UNCHANGED <<head, device>>

\* The next file is offered, or the same one again.
Offer == /\ answer # ""
         /\ file' = <<>> /\ head' = NoHeader /\ answer' = ""
         /\ UNCHANGED device

Next == Walk \/ Foreign \/ Broken \/ Ends \/ Offer

Spec == Init /\ [][Next]_vars

-----------------------------------------------------------------------------
(* What a bundle says, whatever the order of its records and however often a *)
(* later one corrects an earlier.                                            *)

Of(key) == {i \in DOMAIN file : file[i].key = key}
Says(key) == LET last == CHOOSE i \in Of(key) : \A j \in Of(key) : j <= i
             IN  file[last].value
Odd(key) == \E i \in Of(key) : ~file[i].fits

\* What is worked on was walked to its end, is all there when it says how long
\* it is, is for this application, and can be decoded and land here; a
\* difference is to what runs; and only a bundle that says so goes back.
WorkedOnIsFit ==
  answer = "work" =>
    /\ Of("end") # {} /\ Of("output") # {}
    /\ Of("payload") # {} /\ ~Odd("payload") => Says("payload") = Says("end")
    /\ Of("app") # {} /\ ~Odd("app") /\ device.app # Unknown => Says("app") = device.app
    /\ Of("codec") # {} /\ ~Odd("codec") /\ Says("codec") # "none" =>
         Says("codec") \in device.decodes /\ device.inflates
    /\ Of("bootloader") # {} /\ ~Odd("bootloader") =>
         Says("bootloader") <= device.bootloader
    /\ Of("form") # {} /\ ~Odd("form") =>
         CASE Says("form") = "delta" ->
                device.patches /\ \E i \in Of("base") :
                  file[i].fits /\ device.base \in {Unknown, file[i].value}
           [] OTHER -> Says("form") = "full"
    /\ Of("stamp") # {} /\ ~Odd("stamp") /\ Says("stamp") <= device.stamp =>
         Of("downgrade") # {} /\ Says("downgrade")

\* A whole image in the clear, for any device and as long as it says, is taken.
PlainIsTaken ==
  /\ Of("end") # {} /\ Of("output") # {} /\ ~\E i \in DOMAIN file : ~file[i].fits
  /\ \A i \in DOMAIN file : file[i].key \in {"end", "output", "payload", "later"}
  /\ Of("payload") # {} => Says("payload") = Says("end")
  /\ Says("output") > 0 /\ (device.slot = Unknown \/ Says("output") <= device.slot)
  => answer = "work"

HeaderIsJudged == WorkedOnIsFit /\ PlainIsTaken
=============================================================================
