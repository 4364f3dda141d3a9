-------------------------------- MODULE MCNode --------------------------------
(* The sensor node, and beside it, one in each scenario, what its loop only  *)
(* calls: the drivers of MCDevices, and what it keeps or sends: its          *)
(* configuration and settings, its reports in chunks, its recorder and its   *)
(* remote control.                                                           *)
(* The variables a scenario has no use for stay as they are.                 *)
EXTENDS SensorNode, Settings, Datastore, MCDevices

CONSTANT Unknown

VARIABLE w

(* Requests for the node: in range and out of it, one of them "never".        *)
Asked == [station : {0, 1, 2}, window : {0, 2}, interval : {0, 2, 4}]

AllFaults == FaultKinds

(*--------------------------- configuration --------------------------------*)
Num(min, max, dflt, flags, rule, other) ==
  [type |-> "num", min |-> min, max |-> max, dflt |-> dflt,
   flags |-> flags, rule |-> rule, other |-> other]
Str(min, max, dflt) ==
  [type |-> "str", min |-> min, max |-> max, dflt |-> dflt,
   flags |-> {"reboot"}, rule |-> "bounds", other |-> 0]

(* Two rows that bound each other.                                          *)
Pairs == INSTANCE ConfigUpdate WITH
          Table <- <<Num(0, 3, 1, {}, "atMost", 2), Num(0, 3, 2, {}, "atLeast", 1)>>,
          Width <- 4, Numbers <- {0, 1, 2, 4}, Strings <- {}, Images <- {<<>>},
          Longest <- 2, Pinnable <- {1},
          value <- p, slots <- q, buffer <- r, image <- s, pinned <- t,
          told <- u, asked <- v, held <- w, wide <- x

(* Minutes against seconds, and a row only the console may set.             *)
Minutes == INSTANCE ConfigUpdate WITH
          Table <- <<Num(1, 3, 1, {}, "within", 2), Num(1, 3, 1, {}, "covers", 1),
                     Num(1, 2, 1, {"local"}, "bounds", 0)>>,
          Width <- 4, Numbers <- {1, 2, 4}, Strings <- {}, Images <- {<<>>},
          Longest <- 2, Pinnable <- {},
          value <- p, slots <- q, buffer <- r, image <- s, pinned <- t,
          told <- u, asked <- v, held <- w, wide <- x

(* Rows of the other kinds, over an image an earlier build left.            *)
Others == INSTANCE ConfigUpdate WITH
          Table <- <<Num(0, 3, 1, {}, "belowNow", 2), Num(0, 3, 3, {}, "aboveNow", 1),
                     Num(1, 3, 1, {"local"}, "listed", {1, 2}),
                     Num(0, 3, 0, {"readonly"}, "bounds", 0), Str(1, 3, <<21>>)>>,
          Width <- 4, Numbers <- {1, 3}, Strings <- {<<22>>, <<22, 23>>},
          Images <- {<<>>, <<118, 1, 106, 2, 111, 2, 22, 23, 102>>},
          Longest <- 2, Pinnable <- {3},
          value <- p, slots <- q, buffer <- r, image <- s, pinned <- t,
          told <- u, asked <- v, held <- w, wide <- x

(*----------------------------- reports ------------------------------------*)
(* Records that fill a frame, share one, or fit none, and one without an     *)
(* encoding; a caller whose frames are accepted or who gives up.            *)
Config == INSTANCE PagedReport WITH
            Builder <- "config", Sizes <- <<2, 0, 3, 5, 1, 1, 2>>,
            Budget <- 4, Retrying <- FALSE, partial <- p, sequence <- q, heard <- r
Variant == INSTANCE PagedReport WITH
            Builder <- "variant", Sizes <- <<2, 3, 4, 1>>,
            Budget <- 4, Retrying <- FALSE, partial <- p, sequence <- q, heard <- r

(* Two images with parts of one category apart and a part that is none, and  *)
(* reports of other builds in and out of order.                              *)
Part1(key, mask) == [key |-> key, mask |-> mask]
Parts == INSTANCE Capabilities WITH
            Bits <- {0, 1},
            Builds <- {[features |-> {0}, parts |-> <<Part1(0, {0}), Part1(9, {1}), Part1(0, {1})>>],
                       [features |-> {}, parts |-> <<Part1(7, {1}), Part1(3, {}), Part1(16, {0}), Part1(6, {1}), Part1(8, {0})>>]},
            Sizes <- {1, 5},
            Foreign <- [odd : {TRUE}, words : {<<Part1(0, {0})>>}] \union
              [odd : {FALSE}, words : {<<Part1(1, {0}), Part1(9, {1}), Part1(1, {0, 1}), Part1(15, {0})>>,
                                       <<Part1(2, {1}), Part1(2, {})>>, <<Part1(7, {0}), Part1(6, {0, 1})>>}],
            image <- p, caps <- q, from <- r, left <- s, wire <- t, heard <- u, shown <- v

(*----------------------------- recorder -----------------------------------*)
(* Two heartbeats with fields not measured, and keys too long and unreadable. *)
Blackbox == INSTANCE Recorder WITH
            Absent <- "absent", KeyMax <- 2, Chunk <- 2,
            MaxStored <- 3, MaxSeq <- 4, MaxSession <- 1,
            Records <- {
              [tag |-> "PWE", values |-> <<"1", "2", "absent", "3", "absent", "4">>],
              [tag |-> "PWS", values |-> <<"1", "2", "3", "absent", "absent">>],
              [tag |-> "PWD", rail |-> "1", key |-> <<"k", "k", "k">>,
               value |-> <<"v", ",", "v">>],
              [tag |-> "PWD", rail |-> "1", key |-> <<",">>, value |-> <<>>]},
            clock <- p, ready <- q, enabled <- r, dump <- s, store <- t,
            session <- u, said <- v

(*------------------------------ control -----------------------------------*)
Everyone == 15

(* Lists of stations that fit, repeat, exceed, or say everyone.             *)
Lists == {<<>>, <<Everyone>>, <<1>>, <<5, 1, 5>>, <<1, 5, 7>>, <<1, Everyone>>,
          <<1, 5, 7, Everyone>>}

Asking(names, stations, scopes, actions, contents) ==
  [name : names, station : stations, scope : scopes, action : actions,
   content : contents, to : Lists]
Nothing == {-1}
Plain   == {""}

(* Every kind of command, with all, some or none of what it needs said.     *)
Wishes ==
  UNION {
    Asking({<<"vers">>, <<"reports">>, <<"boot">>, <<"node", "rollback">>},
           Nothing, Plain, Plain, Nothing),
    Asking({<<"stat">>}, Nothing, {"", "all", "mesh", "node"}, Plain, Nothing),
    Asking({<<"diag", "bbox", verb>> : verb \in {"enable", "disable", "dump"}},
           Nothing, Plain, Plain, Nothing),
    Asking({<<"node", "filters", "clear">>}, Nothing, {"", "all", "manual", "mesh"},
           Plain, Nothing),
    Asking({<<"mesh", "peers", "update">>, <<"node", "filters", "update">>}, {-1, 6},
           Plain, {"", "none", "allow"}, Nothing),
    Asking({<<"content", "delete">>, <<"content", "ota">>, <<"content", "ota", "apply">>},
           Nothing, Plain, Plain, {-1, 0, 27})}

Remote == INSTANCE Control WITH
            Nodes <- {[id |-> 1, store |-> TRUE, consumer |-> "ready",
                       recorder |-> TRUE, fallback |-> FALSE],
                      [id |-> 5, store |-> TRUE, consumer |-> "none",
                       recorder |-> FALSE, fallback |-> TRUE]},
            Asks <- Wishes, TargetsMax <- 2, Byte <- 4, Garbage <- {0, 9}, MaxFrames <- 2,
            ask <- p, refused <- q, frames <- r, left <- s, node <- t

(*----------------------------- settings -----------------------------------*)
Record(subject, startup, cyclic, period, change) ==
  [subject |-> subject, startup |-> startup, cyclic |-> cyclic, period |-> period,
   onChange |-> change]
Bring(key, nums)  == Pair(key, nums, NoRecord)
Schedule(record) == Pair("report", <<>>, record)

ReportTypes == <<"version", "status">>
AsShipped == [station |-> 1, window |-> 1, interval |-> 1,
              startup |-> {"version"}, status |-> "status", period |-> 2]

(* Stations, windows and records that are in order and that are not, and more *)
(* subjects than there is room for.                                          *)
Brought ==
  {<<Bring("station", <<n>>)>> : n \in {0, 2, 3}} \union
  {<<Bring("receive", <<3, 1, 2>>)>>, <<Bring("receive", <<2, 3, 0>>)>>, <<Bring("other", <<>>)>>,
   <<Schedule(Record("version", TRUE, TRUE, 0, TRUE)),
     Schedule(Record("v1", FALSE, TRUE, 3, FALSE))>>,
   <<Schedule(Record("v2", TRUE, FALSE, 1, FALSE)),
     Schedule(Record("mesh", FALSE, FALSE, 1, FALSE))>>,
   <<Schedule(Record("status", FALSE, FALSE, 3, TRUE)), Bring("station", <<1>>)>>}

(* Of the numbers one does not fit 16 bits, and one comes around in 32; what  *)
(* an earlier run left is looked at when the scenario is about the settings.  *)
OutOfTheBox == stored = NoBlock

(*------------------------------- blobs ------------------------------------*)
(* The store takes two of the blobs; the other is too big for it.           *)
TempOfState == [state |-> "state.tmp"]

(*-------------------------------- cart ------------------------------------*)
(* A clock and a counter of failures that wrap within a few windows; the     *)
(* clock may show anything at the start when the scenario is about the cart. *)
Switched == cartNow = 0 /\ ~cart.level

(* The radio starts as any module, on USB or with mode pins, when the         *)
(* scenario is about it, and else as a new one on USB.                        *)
Factory == usb /\ module.regs = BlankRegs

(*------------------------------- scenarios --------------------------------*)
ASSUME PartsAssumption ==
  /\ Pairs!ConfigAssumption /\ Minutes!ConfigAssumption /\ Others!ConfigAssumption
  /\ Config!PagedAssumption /\ Variant!PagedAssumption
  /\ Parts!CapabilitiesAssumption /\ Blackbox!RecorderAssumption /\ Remote!ControlAssumption

parts  == <<p, q, r, s, t, u, v, w, x>>
allVars == <<vars, settingsVars, datastoreVars, buttonVars, cartVars, radioVars,
             scenario, parts>>

Alone ==
  /\ p = Unused /\ q = Unused /\ r = Unused /\ s = Unused /\ t = Unused
  /\ u = Unused /\ v = Unused /\ w = Unused /\ x = Unused

(* The directory may be on any medium when the scenario is about it.         *)
Medium == [volatile |-> FALSE, known |-> TRUE]

PartsInit ==
  /\ Init /\ SettingsInit /\ ButtonInit /\ CartInit /\ RadioInit
  /\ scenario = "settings" \/ OutOfTheBox
  /\ scenario = "cart" \/ Switched
  /\ scenario = "radio" \/ Factory
  /\ \/ scenario \in {"node", "settings", "button", "cart", "radio", "blobs"} /\ Alone
     \/ DriverInit /\ w = Unused
     \/ scenario = "pairs"       /\ Pairs!Init
     \/ scenario = "minutes"     /\ Minutes!Init
     \/ scenario = "others"      /\ Others!Init
     \/ /\ \/ scenario = "config"      /\ Config!Init
           \/ scenario = "variant"     /\ Variant!Init
        /\ s = Unused /\ t = Unused /\ u = Unused /\ v = Unused /\ w = Unused /\ x = Unused
     \/ scenario = "parts"       /\ Parts!Init /\ w = Unused /\ x = Unused
     \/ scenario = "recorder"    /\ Blackbox!Init /\ w = Unused /\ x = Unused
     \/ scenario = "control"     /\ Remote!Init
                                 /\ u = Unused /\ v = Unused /\ w = Unused /\ x = Unused
  /\ DatastoreInit /\ (scenario = "blobs" \/ medium = Medium)

Part ==
  \/ scenario = "pairs"       /\ Pairs!Next
  \/ scenario = "minutes"     /\ Minutes!Next
  \/ scenario = "others"      /\ Others!Next
  \/ scenario = "config"      /\ Config!Next /\ UNCHANGED <<s, t, u, v, w, x>>
  \/ scenario = "variant"     /\ Variant!Next /\ UNCHANGED <<s, t, u, v, w, x>>
  \/ Driver /\ w' = w
  \/ scenario = "parts"       /\ Parts!Next /\ UNCHANGED <<w, x>>
  \/ scenario = "recorder"    /\ Blackbox!Next /\ UNCHANGED <<w, x>>
  \/ scenario = "control"     /\ Remote!Next /\ UNCHANGED <<u, v, w, x>>

devices == <<buttonVars, cartVars, radioVars>>

PartsNext ==
  /\ \/ scenario = "node" /\ Next /\ UNCHANGED <<settingsVars, datastoreVars, devices, parts>>
     \/ scenario = "blobs" /\ DatastoreNext /\ UNCHANGED <<vars, settingsVars, devices, parts>>
     \/ scenario = "settings" /\ SettingsNext /\ UNCHANGED <<vars, datastoreVars, devices, parts>>
     \/ /\ \/ scenario = "button" /\ ButtonNext /\ UNCHANGED <<cartVars, radioVars>>
           \/ scenario = "cart" /\ CartNext /\ UNCHANGED <<buttonVars, radioVars>>
           \/ scenario = "radio" /\ RadioNext /\ UNCHANGED <<buttonVars, cartVars>>
        /\ UNCHANGED <<vars, settingsVars, datastoreVars, parts>>
     \/ Part /\ UNCHANGED <<vars, settingsVars, datastoreVars, devices>>
  /\ UNCHANGED scenario

PartsSpec == PartsInit /\ [][PartsNext]_allVars

(* What is in force is in order, is what a restart finds and what handlers  *)
(* were told; and a refused update, or one from who may not, moves no row.  *)
InForce(table) ==
  CASE table = "pairs"   -> /\ Pairs!TypeOK /\ Pairs!PairsHold
                            /\ Pairs!RestartKeepsNumbers /\ Pairs!HandlersAgree
    [] table = "minutes" -> /\ Minutes!PairsHold /\ Minutes!RestartKeepsNumbers
                            /\ Minutes!HandlersAgree
    [] table = "others"  -> Others!TypeOK /\ Others!RestartKeepsNumbers /\ Others!HandlersAgree
    [] OTHER             -> TRUE
ConfigIsSound ==
  /\ []InForce(scenario)
  /\ [][/\ scenario = "pairs" => Pairs!AllOrNothing
        /\ scenario = "minutes" => Minutes!AllOrNothing
        /\ scenario = "others" => Others!AllOrNothing]_allVars

(* The chunks of a report are the report: nothing twice, nothing missing;   *)
(* and what a version report says the node has is what is heard of it.       *)
ReportIsWhole ==
  /\ scenario = "config" => Config!TypeOK /\ Config!ReportIsWhole
  /\ scenario = "variant" => Variant!TypeOK /\ Variant!ReportIsWhole
  /\ scenario = "parts" => Parts!CapabilitiesAreHeard

(* Records keep their order across resets, a dump gives each once, and a    *)
(* record reads back as what was meant.                                     *)
RecorderIsSound == scenario = "recorder" => Blackbox!RecorderIsSound

(* A request means the same by every medium, reaches who it names or is     *)
(* refused whole, and makes nobody else do anything.                        *)
ControlIsSound == scenario = "control" => Remote!ControlIsSound
=============================================================================
