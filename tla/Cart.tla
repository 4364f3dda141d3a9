-------------------------------- MODULE Cart --------------------------------
(* The supervised board on a switched rail (d_interface_cart.h): when its    *)
(* window opens, what counts as alive, what ends it, and the back-off after  *)
(* windows that came to nothing.  The power is on exactly in the states that *)
(* are not "off".  The cart may do anything with its pin; the clock wraps.   *)
EXTENDS Integers

CONSTANTS
    CartInterval, CartBootMs, CartSilent, CartSettle,   \* cart_config_t
    CartLimit, CartRetry, CartRetryMax,
    CartBeatsMin,   \* CART_BEATS_MIN
    CartWrap,       \* the millisecond clock counts modulo this
    CartFailsMod,   \* the counter of failures counts modulo this
    CartMaxStep,    \* longest time between two ticks of the loop
    CartMaxStreak   \* bound: failures in a row are counted up to this

\* The bounds of the configuration rows, and boot_ok/limit_ok: the boot
\* deadline is under the backstop.  Nothing bounds CartRetryMax * CartRetry.
ASSUME CartAssumption ==
    /\ {CartInterval, CartSettle, CartRetry, CartRetryMax} \subseteq Nat
    /\ {CartBootMs, CartSilent, CartLimit, CartBeatsMin, CartWrap, CartFailsMod,
        CartMaxStep, CartMaxStreak} \subseteq Nat \ {0}
    /\ CartMaxStreak >= CartRetryMax /\ CartMaxStreak >= CartFailsMod
    /\ CartBootMs < CartLimit
    /\ CartLimit + (CartBeatsMin + 1) * CartMaxStep < CartWrap

VARIABLES
    cart,     \* cart_t
    cartNow,  \* the clock
    cartGap,  \* time since the last tick
    cartHist  \* history, in true time up to a clock: since the rail was switched
              \* and since the last change seen; failures in a row; the last event

cartVars == <<cart, cartNow, cartGap, cartHist>>

CartInit ==
    /\ cartNow \in 0 .. CartWrap - 1
    /\ cartGap = 0
    /\ \E level \in BOOLEAN :
          cart = [state |-> "off", level |-> level, edge |-> 0, beats |-> 0,
                  seen |-> FALSE, opened |-> 0, closed |-> cartNow, quiet |-> 0,
                  fails |-> 0]
    /\ cartHist = [rail |-> 0, edge |-> 0, streak |-> 0,
                   last |-> [event |-> "none", rail |-> 0, edge |-> 0]]

SinceUnwrapped(t) == IF cartNow >= t THEN cartNow - t ELSE 0   \* a slip

Since(t) == (cartNow - t) % CartWrap

\* cart_wait_ms: the product and the sum are taken modulo the clock's width.
UpToCap(fails) == IF fails < CartRetryMax THEN fails ELSE CartRetryMax
WaitMs == (CartInterval + UpToCap(cart.fails) * CartRetry) % CartWrap

\* History: what an event finds, and what it leaves.
Told(event, edge, streak) ==
    [rail |-> 0, edge |-> 0, streak |-> streak,
     last |-> [event |-> event, rail |-> cartHist.rail, edge |-> edge]]

-----------------------------------------------------------------------------
\* cart_open, by itself or when asked
Opening(event, level) ==
    /\ cart.state = "off"
    /\ cart' = [cart EXCEPT !.state = "booting", !.opened = cartNow, !.seen = FALSE,
                         !.beats = 0, !.level = level, !.edge = cartNow]
    /\ cartHist' = Told(event, 0, cartHist.streak)

\* cart_close, on d, which the step has made of the cart
Closing(d, event, edge, streak) ==
    /\ cart' = [d EXCEPT !.state = "off", !.closed = cartNow]
    /\ cartHist' = Told(event, edge, streak)

OpenAsked ==
    /\ \E level \in BOOLEAN : Opening("asked", level)
    /\ UNCHANGED <<cartNow, cartGap>>

CloseAsked ==
    /\ cart.state # "off"
    /\ Closing(cart, "cut", cartHist.edge, cartHist.streak)
    /\ UNCHANGED <<cartNow, cartGap>>

-----------------------------------------------------------------------------
(* cart_tick: what the pin says comes first.  One change is not a heartbeat, *)
(* and the tick that hears it, or hears the cart come alive, ends there.     *)
Changed(level) == cart.state # "off" /\ level # cart.level

Noted == [cart EXCEPT !.level = ~@, !.edge = cartNow]

Beat ==
    /\ ~cart.seen
    /\ cart' = IF cart.beats + 1 < CartBeatsMin THEN [Noted EXCEPT !.beats = @ + 1]
               ELSE [Noted EXCEPT !.beats = @ + 1, !.seen = TRUE, !.state = "running"]
    /\ cartHist' = [cartHist EXCEPT !.edge = 0]

\* A beat in the settle is not the end; d is judged as it then is.
Heard(level) ==
    IF Changed(level)
    THEN [Noted EXCEPT !.state = IF @ = "settling" THEN "running" ELSE @]
    ELSE cart

WindowDue(level) ==
    /\ cart.state = "off" /\ CartInterval # 0 /\ Since(cart.closed) >= WaitMs
    /\ Opening("opened", level)

\* History: one failure more in a row.
Longer(streak) == IF streak = CartMaxStreak THEN streak ELSE streak + 1

Failing(d) == [d EXCEPT !.fails = (@ + 1) % CartFailsMod]

NoBoot(d) ==
    /\ d.state = "booting" /\ Since(d.opened) >= CartBootMs
    /\ Closing(Failing(d), "no_boot", 0, Longer(cartHist.streak))

Backstop(d) ==
    /\ d.state = "running" /\ Since(d.opened) >= CartLimit
    /\ Closing(Failing(d), "overran", 0, Longer(cartHist.streak))

Quiet(d, edge) ==
    /\ d.state = "running" /\ Since(d.opened) < CartLimit
    /\ cart' = IF Since(d.edge) >= CartSilent
               THEN [d EXCEPT !.state = "settling", !.quiet = cartNow] ELSE d
    /\ cartHist' = [cartHist EXCEPT !.edge = edge]

Finished(d, edge) ==
    /\ d.state = "settling"
    /\ Since(d.quiet) >= CartSettle \/ Since(d.opened) >= CartLimit
    /\ Closing([d EXCEPT !.fails = 0], "closed", edge, 0)

Waiting(d) ==
    /\ \/ d.state = "off" /\ (CartInterval = 0 \/ Since(d.closed) < WaitMs)
       \/ d.state = "booting" /\ Since(d.opened) < CartBootMs
       \/ d.state = "settling" /\ Since(d.quiet) < CartSettle /\ Since(d.opened) < CartLimit
    /\ UNCHANGED <<cart, cartHist>>

CartTick ==
    /\ \E level \in BOOLEAN :
          LET d == Heard(level)
              edge == IF Changed(level) THEN 0 ELSE cartHist.edge
          IN  \/ Changed(level) /\ Beat
              \/ /\ Changed(level) => cart.seen
                 /\ \/ WindowDue(level) \/ NoBoot(d) \/ Backstop(d)
                    \/ Quiet(d, edge) \/ Finished(d, edge) \/ Waiting(d)
    /\ cartGap' = 0
    /\ UNCHANGED cartNow

-----------------------------------------------------------------------------
\* A restart of the node: the pin floats and the rail falls, cart_init runs.
\* (The failures are forgotten with the rest of the RAM.)
CartRestart ==
    /\ cart' = [cart EXCEPT !.state = "off", !.edge = 0, !.beats = 0, !.seen = FALSE,
                         !.opened = 0, !.closed = cartNow, !.quiet = 0, !.fails = 0]
    /\ cartHist' = Told("cut", cartHist.edge, 0)
    /\ cartGap' = 0
    /\ UNCHANGED cartNow

CartPass ==
    /\ cartGap < CartMaxStep
    /\ cartNow' = (cartNow + 1) % CartWrap /\ cartGap' = cartGap + 1
    /\ LET longer(t) == IF t = CartWrap THEN t ELSE t + 1
       IN  cartHist' = [cartHist EXCEPT !.rail = longer(@), !.edge = longer(@)]
    /\ UNCHANGED cart

CartNext == OpenAsked \/ CloseAsked \/ CartTick \/ CartRestart \/ CartPass

CartSpec == CartInit /\ [][CartNext]_cartVars

-----------------------------------------------------------------------------
\* The power is never on longer than the backstop, but for the ticks that pass
\* late or end at a beat, whatever the cart does with its pin: each of the
\* beats it takes to be alive puts the boot deadline off by a tick.
WindowsEnd ==
    cart.state # "off" => cartHist.rail < CartLimit + (CartBeatsMin + 1) * CartMaxStep

\* A cart that came alive is cut at the backstop, or after the silence and the
\* settle, counted from the last change that was seen; one that did not, not
\* before the boot deadline.
CutsAreFair ==
    LET last == cartHist.last
    IN  CASE last.event = "closed" ->
                 last.edge >= CartSilent + CartSettle \/ last.rail >= CartLimit
          [] last.event = "overran" -> last.rail >= CartLimit
          [] last.event = "no_boot" -> last.rail >= CartBootMs
          [] OTHER -> TRUE

\* "Each consecutive failure adds this to the wait, up to the cap."
\* As long as the wait fits the clock and the failures their counter.
BacksOff ==
    (/\ CartInterval + CartRetryMax * CartRetry < CartWrap
     /\ cartHist.streak < CartFailsMod
     /\ cartHist.last.event = "opened")
        => cartHist.last.rail >= CartInterval
             + UpToCap(cartHist.streak) * CartRetry

CartIsSupervised == WindowsEnd /\ CutsAreFair /\ BacksOff
=============================================================================
