------------------------------- MODULE Button -------------------------------
(* The button driver (d_interface_button.h): an interrupt on every edge of   *)
(* the pin classifies presses into a ring of events kept in RTC memory; the  *)
(* loop polls the same memory without a lock, and either may turn a pending  *)
(* click into a single press.  Polling is taken step by step, so that the    *)
(* interrupt can come in between; the interrupt itself is not interrupted.   *)
(* Time is a clock of ticks that restarts with the chip.                     *)
EXTENDS Integers

CONSTANTS
    Debounce, Double, Long, Extra, StuckAfter,  \* thresholds, in ticks
    Ring,                                       \* BUTTON_EVENT_BUFFER_SIZE
    MaxTime,                                    \* bound on the clock
    MaxEvents               \* bound on events stored and on presses counted

\* The order the thresholds are configured in.
ASSUME ButtonAssumption ==
    /\ {Debounce, Double, Long, Extra, StuckAfter} \subseteq Nat \ {0}
    /\ Debounce <= Long /\ Long <= Extra /\ Extra <= StuckAfter
    /\ Ring \in Nat /\ Ring > 1

VARIABLES
    low,     \* the pin: pressed
    edge,    \* an edge the interrupt has not served yet
    now,     \* hw_timer_get_time(), from 1 at every start
    rtc,     \* _button_rtc: ring, indices, count, press and click times
    poll,    \* where the loop is inside a call of the driver
    taken,   \* id of the last event the loop fetched
    tally,   \* history: short presses heard, and what became of them
    muddled  \* history: the interrupt came inside a call, or a restart
             \* inside a gesture, and changed what the other side decided on

buttonVars == <<low, edge, now, rtc, poll, taken, tally, muddled>>

None == [kind |-> "none", id |-> 0]
NoPresses == [heard |-> 0, single |-> 0, double |-> 0, swallowed |-> 0]

ButtonInit ==
    /\ low = FALSE /\ edge = FALSE /\ now = 1
    /\ rtc = [events |-> [i \in 0 .. Ring - 1 |-> None], write |-> 0,
              read |-> 0, count |-> 0, press |-> 0, click |-> 0]
    /\ poll = "idle"
    /\ taken = 0
    /\ tally = NoPresses
    /\ muddled = FALSE

-----------------------------------------------------------------------------
(* The ring: the slot is written, then the index moves, then a full ring     *)
(* gives up its oldest event.                                                *)
Filled(t, kind) ==
    [t EXCEPT !.events[t.write] = [kind |-> kind, id |-> t.count + 1],
              !.count = @ + 1]

Stepped(t) ==
    LET w == (t.write + 1) % Ring
    IN  [t EXCEPT !.write = w,
                  !.read = IF w = @ THEN (@ + 1) % Ring ELSE @]

StoreEvent(t, kind) == Stepped(Filled(t, kind))

Due(t) == t.press = 0 /\ t.click > 0 /\ now - t.click > Double

ResolvePendingSingle(t) ==
    IF now < t.click THEN [t EXCEPT !.click = 0]
    ELSE IF Due(t) THEN [StoreEvent(t, "single") EXCEPT !.click = 0]
    ELSE t

ClassifiedKeepsClick(t, held) ==   \* a slip
    LET s == ResolvePendingSingle(t)
        kind == IF held > StuckAfter THEN "stuck"
                ELSE IF held > Extra THEN "extra" ELSE "long"
    IN  CASE held > Long -> [StoreEvent(t, kind) EXCEPT !.click = 0]
          [] held <= Long /\ s.click > 0 /\ now - s.click < Double ->
                 StoreEvent(s, "double")
          [] OTHER -> [s EXCEPT !.click = now]

(* A release that lasted: the class of the press, or a click that waits for  *)
(* a second one.                                                             *)
Classified(t, held) ==
    LET s == ResolvePendingSingle(t)
        kind == IF held > StuckAfter THEN "stuck"
                ELSE IF held > Extra THEN "extra" ELSE "long"
    IN  CASE held > Long -> [StoreEvent(t, kind) EXCEPT !.click = 0]
          [] held <= Long /\ s.click > 0 /\ now - s.click < Double ->
                 [StoreEvent(s, "double") EXCEPT !.click = 0]
          [] OTHER -> [s EXCEPT !.click = now]

Handled(t) ==
    LET held == now - t.press
    IN  CASE low -> [t EXCEPT !.press = IF @ = 0 THEN now ELSE @]
          [] ~low /\ t.press = 0 -> t
          [] ~low /\ t.press > 0 /\ held < 0 ->
                 [t EXCEPT !.press = 0, !.click = 0]
          [] ~low /\ t.press > 0 /\ held \in 0 .. Debounce - 1 ->
                 [t EXCEPT !.press = 0]
          [] OTHER -> [Classified(t, held) EXCEPT !.press = 0]

\* History: how the handler's step from t to s accounts for short presses.
Counted(t, s) ==
    LET short == ~low /\ t.press > 0 /\ now - t.press \in Debounce .. Long
        fresh == {s.events[i].kind : i \in {j \in 0 .. Ring - 1 :
                                            s.events[j].id > t.count}}
    IN  [heard |-> tally.heard + (IF short THEN 1 ELSE 0),
         single |-> tally.single + (IF "single" \in fresh THEN 1 ELSE 0),
         double |-> tally.double + (IF "double" \in fresh THEN 1 ELSE 0),
         swallowed |-> tally.swallowed
            + (IF /\ ~low /\ t.click > 0 /\ t.press > 0
                  /\ \/ now - t.press > Long
                     \/ short /\ now - t.click >= Double
               THEN 1 ELSE 0)]

\* button_isr_handler
Interrupt ==
    /\ edge /\ edge' = FALSE
    /\ rtc' = Handled(rtc)
    /\ rtc'.count <= MaxEvents
    /\ muddled' = (muddled \/ (poll # "idle"
                       /\ (rtc'.count # rtc.count \/ rtc'.click # rtc.click)))
    /\ tally' = IF muddled' THEN NoPresses ELSE Counted(rtc, rtc')
    /\ tally'.heard <= MaxEvents
    /\ UNCHANGED <<low, now, poll, taken>>

-----------------------------------------------------------------------------
(* The loop's calls.  button_event_in_progress, _timed_out and _count, and   *)
(* _fetch through _count, all resolve a pending click first.                 *)
Ask ==
    /\ poll = "idle"
    /\ \/ /\ now < rtc.click
          /\ rtc' = [rtc EXCEPT !.click = 0]
          /\ poll' = "idle"
       \/ /\ Due(rtc)
          /\ poll' = "due"
          /\ UNCHANGED rtc
    /\ UNCHANGED <<low, edge, now, taken, tally, muddled>>

Fill ==
    /\ poll = "due" /\ rtc.count < MaxEvents
    /\ rtc' = Filled(rtc, "single")
    /\ poll' = "filled"
    /\ UNCHANGED <<low, edge, now, taken, tally, muddled>>

Advance ==
    /\ poll = "filled"
    /\ rtc' = Stepped(rtc)
    /\ poll' = "stored"
    /\ tally' = IF muddled THEN NoPresses ELSE [tally EXCEPT !.single = @ + 1]
    /\ UNCHANGED <<low, edge, now, taken, muddled>>

Forget ==
    /\ poll = "stored"
    /\ rtc' = [rtc EXCEPT !.click = 0]
    /\ poll' = "idle"
    /\ UNCHANGED <<low, edge, now, taken, tally, muddled>>

Unread(t) == (t.write - t.read) % Ring   \* events waiting

\* button_event_fetch: the slot is copied, then the index moves.
Fetch ==
    /\ poll = "idle" /\ ~Due(rtc) /\ now >= rtc.click
    /\ Unread(rtc) > 0
    /\ taken' = rtc.events[rtc.read].id
    /\ poll' = "copied"
    /\ UNCHANGED <<low, edge, now, rtc, tally, muddled>>

Fetched ==
    /\ poll = "copied"
    /\ rtc' = [rtc EXCEPT !.read = (@ + 1) % Ring]
    /\ poll' = "idle"
    /\ UNCHANGED <<low, edge, now, taken, tally, muddled>>

\* button_events_clear
Clear ==
    /\ poll = "idle" /\ rtc.read # rtc.write
    /\ rtc' = [rtc EXCEPT !.read = rtc.write]
    /\ taken' = rtc.count
    /\ UNCHANGED <<low, edge, now, poll, tally, muddled>>

-----------------------------------------------------------------------------
\* The finger, with the contact's bounces; more edges than one can wait.
Flip ==
    /\ low' = ~low /\ edge' = TRUE
    /\ UNCHANGED <<now, rtc, poll, taken, tally, muddled>>

\* The interrupt is served within a tick.
Tick ==
    /\ ~edge /\ now < MaxTime
    /\ now' = now + 1
    /\ UNCHANGED <<low, edge, rtc, poll, taken, tally, muddled>>

\* A deep sleep, a panic or a reset: RTC memory stays, button_hardware_init
\* takes the press from the level of the pin.
Restart ==
    /\ \E down \in BOOLEAN : low' = down
    /\ edge' = FALSE /\ now' = 1 /\ poll' = "idle"
    /\ rtc' = [rtc EXCEPT !.press = IF low' THEN 1 ELSE 0]
    /\ muddled' = (muddled \/ rtc.click > 0 \/ poll # "idle")
    /\ tally' = IF muddled' THEN NoPresses ELSE tally
    /\ UNCHANGED taken

ButtonNext ==
    \/ Interrupt \/ Ask \/ Fill \/ Advance \/ Forget \/ Fetch \/ Fetched
    \/ Clear \/ Flip \/ Tick \/ Restart

ButtonSpec == ButtonInit /\ [][ButtonNext]_buttonVars

-----------------------------------------------------------------------------
\* button_apply_wakeup_deep, _light: the level that wakes the chip.
WakeLevel == IF rtc.press > 0 THEN "high" ELSE "low"

\* With no edge waiting, the level armed for a sleep is the one the pin is
\* not at: whatever bounces, restarts and classes came before, the chip sleeps
\* until the finger moves, and wakes when it does.
WakesOnTheNextChange == ~edge => WakeLevel = (IF low THEN "high" ELSE "low")

\* Unless the interrupt came inside a call of the loop and changed what the
\* call had decided on, or a restart came inside a gesture: every short press
\* heard is one single, half a double, waiting, or given up at the release of a
\* later press: a long one, or one past the window when the loop did not ask in
\* between (the interrupt's own attempt to resolve the click finds press_time
\* still set and does nothing);
\* and the events unread are the latest stored, in order, none fetched twice.
PressesAreToldOnce ==
    (poll = "idle" /\ ~muddled) =>
        /\ tally.heard = tally.single + 2 * tally.double + tally.swallowed
                         + (IF rtc.click > 0 THEN 1 ELSE 0)
        /\ \A k \in 1 .. Unread(rtc) :
                  LET e == rtc.events[(rtc.write - k) % Ring]
                  IN  e.id = rtc.count - k + 1 /\ e.id > taken

ButtonTells == WakesOnTheNextChange /\ PressesAreToldOnce
=============================================================================
