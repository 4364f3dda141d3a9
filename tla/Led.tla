-------------------------------- MODULE Led --------------------------------
(* The light (d_interface_led.h): the loop starts and stops patterns, a      *)
(* periodic timer drives them from a task of higher priority, which may run  *)
(* between any two steps of the loop and always to its end.  Stopping a      *)
(* timer that does not run fails, and the check around the call aborts.      *)
EXTENDS Integers

CONSTANTS MaxCount   \* blinks asked for, 0 .. MaxCount
LedAssumption == MaxCount \in Nat \ {0}

Timed == {"blink", "pulse"}
Patterns == Timed \cup {"off", "solid"}

VARIABLES
    led,     \* led_handle_t: pattern, busy, blink_count, blink_state
    timer,   \* "none" until the first pattern that needs it, "idle", "running"
    pin,     \* the light: "on" or "off"
    call,    \* where the loop is: its step and the pattern it was asked for
    tested,  \* history: led_status drove the pin since the last start
    asked    \* history: the last pattern started, and its blinks

vars == <<led, timer, pin, call, tested, asked>>

Idle == [at |-> "idle", pattern |-> "off", arg |-> 0]

Init ==
    /\ led = [pattern |-> "off", busy |-> FALSE, count |-> 0, state |-> 0]
    /\ timer = "none" /\ pin = "off" /\ call = Idle
    /\ tested = FALSE /\ asked = [pattern |-> "off", blinks |-> 0]

Level(n) == IF n % 2 = 0 THEN "on" ELSE "off"   \* LED_LEVEL_ON is 0

\* led_timer_callback.  The pulse's count of levels is kept to its parity.
Callback ==
    /\ timer = "running"
    /\ LET n == led.state + 1
           over == led.pattern = "blink" /\ n >= led.count * 2
       IN  IF led.pattern \in Timed
           THEN /\ pin' = Level(led.state)
                /\ led' = [led EXCEPT !.busy = @ /\ ~over,
                              !.state = IF led.pattern = "pulse" THEN n % 2 ELSE n]
                /\ timer' = IF over THEN "idle" ELSE timer
           ELSE /\ pin' = "off"
                /\ led' = [led EXCEPT !.busy = FALSE]
                /\ timer' = "idle"
    /\ UNCHANGED <<call, tested, asked>>

\* led_start and led_stop: led_stop first looks at busy, then at the pattern.
Call(pattern, arg) ==
    /\ call.at = "idle"
    /\ call' = [at |-> IF ~led.busy THEN "stopped"
                       ELSE IF led.pattern \in Timed THEN "halt" ELSE "dark",
                pattern |-> pattern, arg |-> arg]
    /\ UNCHANGED <<led, timer, pin, tested, asked>>

Start(pattern, arg) == Call(pattern, arg)
Stop == Call("none", 0)

\* hw_timer_stop, with its check
Halt ==
    /\ call.at = "halt"
    /\ call' = [call EXCEPT !.at = IF timer = "running" THEN "dark" ELSE "aborted"]
    /\ timer' = IF timer = "running" THEN "idle" ELSE timer
    /\ UNCHANGED <<led, pin, tested, asked>>

DarkLeavesLit ==   \* a slip
    /\ call.at = "dark"
    /\ led' = [led EXCEPT !.busy = FALSE]
    /\ call' = [call EXCEPT !.at = "stopped"]
    /\ UNCHANGED <<timer, pin, tested, asked>>

Dark ==
    /\ call.at = "dark"
    /\ pin' = "off"
    /\ led' = [led EXCEPT !.busy = FALSE]
    /\ call' = [call EXCEPT !.at = "stopped"]
    /\ UNCHANGED <<timer, tested, asked>>

\* The rest of led_start; nothing runs that could come in between.
Begin ==
    /\ call.at = "stopped" /\ call.pattern # "none"
    /\ led' = [pattern |-> call.pattern, state |-> 0,
               busy |-> led.busy \/ call.pattern # "off",
               count |-> IF call.pattern = "blink"
                         THEN IF call.arg > 0 THEN call.arg ELSE 1
                         ELSE led.count]
    /\ pin' = IF call.pattern = "solid" THEN "on" ELSE pin
    /\ timer' = IF call.pattern \in Timed THEN "running" ELSE timer
    /\ call' = Idle
    /\ tested' = FALSE
    /\ asked' = [pattern |-> call.pattern, blinks |-> call.arg]

Return ==
    /\ call.at = "stopped" /\ call.pattern = "none"
    /\ call' = Idle
    /\ tested' = FALSE
    /\ asked' = [pattern |-> "off", blinks |-> 0]
    /\ UNCHANGED <<led, timer, pin>>

\* led_status: drives the pin both ways and leaves it off; a pattern goes on.
Status ==
    /\ call.at = "idle"
    /\ pin' = "off" /\ tested' = TRUE
    /\ UNCHANGED <<led, timer, call, asked>>

\* led_term: stops, then deletes the timer; led_hardware_term: the pin let go.
Term ==
    /\ call.at = "idle" /\ ~led.busy /\ timer # "none"
    /\ timer' = "none" /\ pin' = "off"
    /\ UNCHANGED <<led, call, tested, asked>>

Restart ==
    /\ call.at = "aborted"
    /\ led' = [pattern |-> "off", busy |-> FALSE, count |-> 0, state |-> 0]
    /\ timer' = "none" /\ pin' = "off" /\ call' = Idle
    /\ tested' = FALSE /\ asked' = [pattern |-> "off", blinks |-> 0]

Next ==
    \/ Callback \/ Stop \/ Halt \/ Dark \/ Begin \/ Return \/ Status \/ Term
    \/ Restart
    \/ \E p \in Patterns, n \in 0 .. MaxCount : Start(p, n)

\* The timer's task runs while the timer does.
Spec == Init /\ [][Next]_vars /\ WF_vars(Callback)

-----------------------------------------------------------------------------
\* Between calls, whatever interleaving of callbacks and calls led there: the
\* timer runs exactly while a timed pattern is busy, a light not busy is dark,
\* and a solid light is lit unless the self test has put it out meanwhile.
LightFollows ==
    call.at = "idle" =>
        /\ (timer = "running") <=> (led.busy /\ led.pattern \in Timed)
        /\ ~led.busy => pin = "off"
        /\ (led.busy /\ led.pattern = "solid" /\ ~tested) => pin = "on"
        /\ led.busy => led.pattern = asked.pattern

\* A blink comes to its end by itself, unless another call comes first.
BlinkEnds ==
    (led.busy /\ led.pattern = "blink" /\ timer = "running")
        ~> (~led.busy \/ timer # "running")

\* hw_timer_stop is only called on a timer that runs (its ESP_ERROR_CHECK).
StopsWhatRuns == call.at # "aborted"
=============================================================================
