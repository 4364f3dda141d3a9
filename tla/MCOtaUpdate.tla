---------------------------- MODULE MCOtaUpdate ----------------------------
(* Bundles of the kinds that are treated differently, for a node built with *)
(* stamp 1; and, in scenarios of their own, the headers such bundles may    *)
(* have, record by record, and their payloads, through each decoder and the *)
(* patcher, in chunks and windows of a few bytes.                           *)
EXTENDS OtaUpdate, TLC

CONSTANT Codecs

VARIABLES scenario, bundle, apply, codec, pull, spare, hash, faulted,
          file, head, device, answer

Symmetry == Permutations(Ids)

Bundle(stamp, base, downgrade, whole, vouched) ==
  [stamp |-> stamp, base |-> base, downgrade |-> downgrade,
   whole |-> whole, vouched |-> vouched]

(* For an image of stamp 2, which may also replace a later one; for one of  *)
(* stamp 3, as a difference to the first, not vouched for; and a bent one.  *)
Newer == Bundle(2, Full, TRUE, TRUE, TRUE)
Patch == Bundle(3, 1, FALSE, TRUE, FALSE)
Bent  == Bundle(2, Full, FALSE, FALSE, TRUE)

Kinds == {Newer, Patch, Bent}

Good == {Bundle(n, Full, FALSE, TRUE, TRUE) : n \in {2, 3}}

(* A symbol may give nothing, one byte, or more than a buffer takes at once. *)
Symbols == UNION {[1 .. n -> {0, 1, 3}] : n \in 1 .. 4}
Stream == INSTANCE BundleStream WITH
            Wire <- 2, Plain <- 2, Window <- 4, Lead <- 1, Cache <- 2,
            Streams <- Symbols, slot <- spare

(* Each key with values on both sides of what a device wants, one of another *)
(* width, and a key of a later release.  A node that knows everything of     *)
(* itself and was given nothing to decode with, one that declares more than *)
(* it was given, and one that knows little.                                 *)
Field(key, values) == [key : {key}, value : values, fits : {TRUE}]
Declared == [app |-> 1, stamp |-> 2, bootloader |-> 1, slot |-> 2, base |-> 1,
             decodes |-> {"deflate"}, inflates |-> TRUE, patches |-> TRUE]
Devices == {Declared, [Declared EXCEPT !.inflates = FALSE, !.patches = FALSE],
            [Declared EXCEPT !.stamp = 0, !.slot = 0, !.base = 0, !.decodes = {}]}
Written == UNION {
  Field("app", {1, 2}), Field("stamp", {1, 3}),
  Field("form", {"full", "delta", "later"}), Field("codec", {"deflate", "heatshrink"}),
  Field("downgrade", {TRUE}), Field("bootloader", {2}), Field("output", {2, 3}),
  Field("base", {1, 2}), Field("payload", {1}), Field("later", {0}),
  [key : {"payload", "base"}, value : {1}, fits : {FALSE}],
  [key : {"form"}, value : {"delta"}, fits : {FALSE}]}
Header == INSTANCE BundleHeader WITH
            MaxRecords <- 3, Payloads <- {1, 2}, Records <- Written

ASSUME StreamAssumption == Stream!BundleStreamAssumption

streamVars == <<bundle, apply, codec, pull, spare, hash, faulted>>
headerVars == <<file, head, device, answer>>

all == <<vars, scenario, streamVars, headerVars>>

Opening == /\ Init
           /\ \/ scenario = "update" /\ Stream!Idle /\ bundle = "none"
              \/ scenario = "stream" /\ Stream!Init
              \/ scenario = "header" /\ Stream!Idle /\ bundle = "none"
           /\ Header!Init /\ (scenario = "header" \/ device = Declared)

Play == \/ scenario = "update" /\ Next /\ UNCHANGED <<scenario, streamVars, headerVars>>
        \/ scenario = "stream" /\ Stream!Next /\ UNCHANGED <<scenario, vars, headerVars>>
        \/ scenario = "header" /\ Header!Next /\ UNCHANGED <<scenario, vars, streamVars>>

Scenes == Opening /\ [][Play]_all

(* What is worked on was read to the end of its header and is for this node  *)
(* as it is, whatever the order of its records and wherever it was cut; and  *)
(* a bundle is applied whole or not at all, and an intact one is, but for    *)
(* what a decoder had taken without handing over.                           *)
BundleIsSound == /\ scenario = "header" => Header!HeaderIsJudged
                 /\ scenario = "stream" => Stream!StreamIsSound

StreamScene == Opening /\ scenario = "stream" /\ [][Play]_all

(* The same, with no such exception: a bundle with nothing wrong with it and *)
(* no call failing is not thrown away.                                      *)
IntactIsNeverRefused == scenario = "stream" => Stream!IntactIsNeverRefused
=============================================================================
