------------------------------- MODULE Radio -------------------------------
(* The radio driver (d_interface_e22900t22.h): the module's mode and         *)
(* registers as the driver sets and verifies them, and the guard between     *)
(* writes on the clock that wraps; what it receives is Receiver's.  A        *)
(* command that is not answered, not obeyed or not stored is an outcome of   *)
(* the module, as the source's comments report them.                         *)
EXTENDS Integers

CONSTANTS
    RadioConfigs,   \* what can be asked of the registers
    RadioGuard,     \* _LORA_TX_GUARD_USB_MS, in ticks
    RadioWait,      \* what lora_wait_ready allows before a write
    RadioWrap       \* the millisecond clock counts modulo this

ASSUME RadioAssumption ==
    /\ {RadioGuard, RadioWait, RadioWrap} \subseteq Nat \ {0}
    /\ RadioGuard <= RadioWait /\ 2 * RadioWait < RadioWrap

VARIABLES
    usb,        \* the module is on USB: commands for modes, no AUX to wait on
    module,     \* the module: its mode and its registers
    host,       \* the driver: uart and pins on, RTC data valid and its config
    setup,      \* history: what the last lora_setup returned, and warned of
    clock, until,   \* hw_time_ms() and _lora_tx_guard_until_ms
    quiet       \* history: ticks since the last write, and before it, up to a clock

radioVars == <<usb, module, host, setup, clock, until, quiet>>
tx == <<clock, until, quiet>>

\* Registers: what was asked, and the bit that lets a USB module switch modes.
BlankRegs == [config |-> "factory", switch |-> FALSE]
Wanted(config) == [config |-> config, switch |-> usb]

RadioInit ==
    /\ usb \in BOOLEAN
    /\ module \in [mode : {"normal"}, regs : {BlankRegs, [BlankRegs EXCEPT !.switch = TRUE]}]
    /\ host = [on |-> FALSE, valid |-> FALSE]
    /\ setup = [ok |-> FALSE, warned |-> FALSE, config |-> "factory"]
    /\ clock = 0 /\ until = 0 /\ quiet = [since |-> RadioWrap, before |-> RadioWrap]

-----------------------------------------------------------------------------
(* Commands: the outcomes of each, as the module it leaves and its answer.   *)
\* _lora_mode_set_dip drives two pins and waits for AUX; _lora_mode_set_usb
\* writes a command that a module without the switch bit puts on the air, and
\* takes FF FF FF for success.
ModeSet(m, mode) ==
    LET obeyed == [m EXCEPT !.mode = mode]
        either(answers) == {[module |-> x, ok |-> a] : x \in {m, obeyed}, a \in answers}
    IN  IF ~usb
        THEN {[module |-> obeyed, ok |-> a] : a \in {mode = "sleep", TRUE}}
        ELSE IF ~m.regs.switch THEN {[module |-> m, ok |-> a] : a \in BOOLEAN}
        ELSE IF mode = "sleep" THEN either({TRUE}) \cup {[module |-> m, ok |-> FALSE]}
        ELSE either(BOOLEAN)

\* _lora_cmd_read_config: answered in any mode, or not at all
Reads == BOOLEAN

\* _lora_cmd_write_config: only in the configuration mode; the echo is checked
\* against what was sent, what the module keeps is another matter.
Written(m, regs) ==
    {[module |-> m, ok |-> FALSE]}
    \cup IF m.mode # "config" THEN {}
         ELSE {[module |-> x, ok |-> a] :
                    x \in {m, [m EXCEPT !.regs = regs]}, a \in BOOLEAN}

\* _lora_read_and_update_config: read, write what differs, read back.  A read
\* back that fails or shows something else is logged, and the result is OK.
Updated(m, regs) ==
    LET written == IF m.regs = regs THEN {[module |-> m, ok |-> TRUE]}
                   ELSE Written(m, regs)
    IN  {[module |-> m, ok |-> FALSE, warned |-> FALSE]}
        \cup {[module |-> w.module, ok |-> FALSE, warned |-> FALSE] :
                    w \in {x \in written : ~x.ok}}
        \cup {[module |-> w.module, ok |-> TRUE,
               warned |-> m.regs # regs /\ (w.module.regs # regs \/ ~answered)] :
                    w \in {x \in written : x.ok}, answered \in Reads}

\* lora_setup: uart, configuration mode, product, registers, sleep.  However it
\* ends, the module is told to sleep and the uart and the pins are let go.
LoraSetup(config) ==
    /\ ~host.on
    /\ \E uart \in BOOLEAN, mode \in ModeSet(module, "config") :
       \E up \in Updated(mode.module, Wanted(config)) :
       \E asleep \in ModeSet((IF mode.ok THEN up ELSE mode).module, "sleep") :
          LET ok == uart /\ mode.ok /\ up.ok /\ asleep.ok
          IN  /\ module' = IF uart THEN asleep.module ELSE module
              /\ setup' = [ok |-> ok, config |-> config,
                           warned |-> mode.ok /\ up.ok /\ up.warned]
    /\ host' = [host EXCEPT !.valid = TRUE]
    /\ UNCHANGED <<usb, tx>>

\* lora_start, as the node uses it: after a setup that worked.
LoraStart ==
    /\ ~host.on /\ host.valid /\ setup.ok
    /\ \E first \in ModeSet(module, "normal") :
          IF first.ok
          THEN module' = first.module /\ host' = [host EXCEPT !.on = TRUE]
          ELSE /\ \E again \in ModeSet(first.module, "normal") :
                     module' = again.module
               /\ UNCHANGED host
    /\ UNCHANGED <<usb, setup, tx>>

\* lora_stop: whatever the module answers, uart and pins are let go.
LoraStop ==
    /\ host.on
    /\ \E asleep \in ModeSet(module, "sleep") : module' = asleep.module
    /\ host' = [host EXCEPT !.on = FALSE]
    /\ UNCHANGED <<usb, setup, tx>>

-----------------------------------------------------------------------------
PassedUnwrapped(t) == t % RadioWrap >= until   \* a slip

(* Sending.                                                                  *)
\* lora_is_ready: on USB the guard, compared on the clock that wraps; on DIP the
\* module's AUX.
Passed(t) == (t - until) % RadioWrap < RadioWrap \div 2

\* History: the time since the last write, d ticks on.
QuietFor(d) == IF quiet.since + d >= RadioWrap THEN RadioWrap ELSE quiet.since + d

\* lora_write, after lora_wait_ready: at the first moment it is ready.
LoraWrite ==
    /\ host.on
    /\ \E d \in 0 .. RadioWait :
          /\ usb => /\ Passed(clock + d)
                    /\ \A e \in 0 .. d - 1 : ~Passed(clock + e)
          /\ clock' = (clock + d) % RadioWrap
          /\ until' = IF usb THEN (clock' + RadioGuard) % RadioWrap ELSE until
          /\ quiet' = [since |-> 0, before |-> QuietFor(d)]
    /\ UNCHANGED <<usb, module, host, setup>>

\* The module stays busy, or the guard looks unpassed, for the whole wait.
LoraWriteRefused ==
    /\ host.on
    /\ usb => \A d \in 0 .. RadioWait : ~Passed(clock + d)
    /\ clock' = (clock + RadioWait) % RadioWrap
    /\ quiet' = [quiet EXCEPT !.since = QuietFor(RadioWait)]
    /\ UNCHANGED <<usb, module, host, setup, until>>

RadioTick ==
    /\ clock' = (clock + 1) % RadioWrap
    /\ quiet' = [quiet EXCEPT !.since = QuietFor(1)]
    /\ UNCHANGED <<usb, module, host, setup, until>>

RadioNext ==
    \/ \E config \in RadioConfigs : LoraSetup(config)
    \/ LoraStart \/ LoraStop \/ LoraWrite \/ LoraWriteRefused \/ RadioTick

RadioSpec == RadioInit /\ [][RadioNext]_radioVars

-----------------------------------------------------------------------------
\* A setup that returned OK without a warning left the registers it was asked
\* for, whether or not the module obeyed the commands for its mode.
SetupProves == (setup.ok /\ ~setup.warned) => module.regs = Wanted(setup.config)

\* Two writes to a USB module are at least the guard apart, also across the
\* wrap of the clock.
GuardKept == usb => quiet.before >= RadioGuard

RadioKeepsItsWord == SetupProves /\ GuardKept


\* What the application keeps as "E22 NVM configuration verified this power
\* cycle": a setup that returned OK.
PresentIsVerified == setup.ok => module.regs = Wanted(setup.config)
=============================================================================
