------------------------------- MODULE MCFrames -------------------------------
(* The pool of frames, and beside it, one in each scenario, what must not    *)
(* stop: the queue a frame waits in, the client that comes back to its       *)
(* broker, with the library's thread and without, and the light that blinks. *)
(* The components a scenario is not about stay as they were begun.           *)
(*                                                                           *)
(* Three buffers over two words of the pool's map, the second partly filled. *)
EXTENDS BufferPool, TLC

CONSTANTS Threads, Poller, Topics, NoTopic

VARIABLES
  scenario,
  qFree, qRefs, qAt, qLen, qHint, qInUse, qPoolHigh,          \* the queue's pool
  slot, qUsed, qHighWater, lock, local, call, now, fate,      \* the queue
  client, connected, table, delay, wait, replay, writing,     \* the client
  wanted, link, session, reachable, recorded,
  led, timer, pin, ledCall, tested, asked                     \* the light

(* Two threads, two frames, a clock that wraps within the model's horizon.   *)
Q == INSTANCE BufferQueue WITH
       Count <- 1, WordBits <- 32, Stride <- 1, Offset <- 0, RefMax <- 255,
       Size <- 2, Wrap <- 16, Frames <- {1, 2}, Tags <- {1}, Keys <- {1},
       Delays <- {0}, Ttls <- {0, 2}, Start <- 15, Horizon <- 17,
       free <- qFree, refs <- qRefs, at <- qAt, len <- qLen, hintWord <- qHint,
       used <- qInUse, highWater <- qPoolHigh

(* A table of two rows for two patterns, and a delay that doubles to its cap. *)
Threaded == INSTANCE MqttClient WITH
       RowsMax <- 2, Base <- 1, Most <- 3, Synchronous <- FALSE
Looped == INSTANCE MqttClient WITH
       RowsMax <- 2, Base <- 1, Most <- 3, Synchronous <- TRUE

Light == INSTANCE Led WITH MaxCount <- 2, call <- ledCall

ASSUME FramesAssumption ==
  Threaded!MqttAssumption /\ Looped!MqttAssumption /\ Light!LedAssumption

queueVars  == <<qFree, qRefs, qAt, qLen, qHint, qInUse, qPoolHigh,
                slot, qUsed, qHighWater, lock, local, call, now, fate>>
clientVars == <<client, connected, table, delay, wait, replay, writing,
                wanted, link, session, reachable, recorded>>
lightVars  == <<led, timer, pin, ledCall, tested, asked>>

NotPool   == UNCHANGED <<queueVars, clientVars, lightVars, scenario>>
NotQueue  == UNCHANGED <<vars, clientVars, lightVars, scenario>>
NotClient == UNCHANGED <<vars, queueVars, lightVars, scenario>>
NotLight  == UNCHANGED <<vars, queueVars, clientVars, scenario>>

FramesInit ==
  /\ scenario \in {"pool", "queue", "threaded", "looped", "light"}
  /\ Init /\ Q!Init /\ Threaded!Init /\ Light!Init

FramesNext ==
  \/ scenario = "pool"     /\ Next          /\ NotPool
  \/ scenario = "queue"    /\ Q!Next        /\ NotQueue
  \/ scenario = "threaded" /\ Threaded!Next /\ NotClient
  \/ scenario = "looped"   /\ Looped!Next   /\ NotClient
  \/ scenario = "light"    /\ Light!Next    /\ NotLight

all == <<vars, queueVars, clientVars, lightVars, scenario>>

(* The fairness of each component in its scenario.  A behaviour stays in its *)
(* scenario, so one condition can carry one of each component.               *)
InCall(t) == scenario = "queue" /\ Q!InCall(t) /\ NotQueue
Polls     == scenario = "queue" /\ Q!SweepTest(Poller, "expire") /\ NotQueue
Client(threaded, looped) ==
  /\ \/ scenario = "threaded" /\ threaded
     \/ scenario = "looped" /\ looped
  /\ NotClient
Accepted == Client(Threaded!ConnectCallback(TRUE), Looped!ConnectCallback(TRUE))
Loops    == Client(Threaded!Loop /\ wait = 0, Looped!Loop /\ wait = 0)
Goes     == \/ scenario = "queue" /\ Q!Tick /\ NotQueue
            \/ Client(Threaded!Subscribing, Looped!Subscribing)
            \/ scenario = "light" /\ Light!Callback /\ NotLight
Network  == Client(Threaded!Network, Looped!Network)
Time     == Client(Threaded!Tick, Looped!Tick)

FramesSpec ==
  /\ FramesInit /\ [][FramesNext]_all
  /\ \A t \in Threads : SF_all(InCall(t) \/ (t = Poller /\ Accepted)
                                         \/ (t # Poller /\ Loops))
  /\ SF_all(Polls)
  /\ WF_all(Goes) /\ WF_all(Network) /\ WF_all(Time)

(* A frame with an expiry does not stay queued for ever.                    *)
LeavesInTheEnd == Q!LeavesInTheEnd

(* The broker knows what the table has, and a client that began is connected *)
(* again once the broker stays within reach.                                *)
MqttServes ==
  /\ [](/\ Threaded!TypeOK
        /\ scenario = "threaded" => Threaded!BrokerKnowsTheTable
        /\ scenario = "looped" => Looped!BrokerKnowsTheTable)
  /\ Threaded!ComesBack

(* The light shows the pattern that was asked for, and a blink ends.        *)
LightServes == [](scenario = "light" => Light!LightFollows) /\ Light!BlinkEnds
=============================================================================
