-------------------------------- MODULE Hif ---------------------------------
(***************************************************************************)
(* src/src/wf_hif.c, the host interface between the superloop and the      *)
(* WINC1500: the interrupt counter that m2m_EintHandler raises and         *)
(* hif_handle_isr consumes, the one-slot mailbox of received packets, the  *)
(* wake/sleep counter, and the driver start-up around hif_init.            *)
(*                                                                         *)
(* Three actors interleave.  The superloop runs the driver and is at pc;   *)
(* the IRQ pin's handler preempts it wherever the pin interrupt is enabled;*)
(* the chip offers a packet whenever its mailbox is free.  The pin latches *)
(* one falling edge while its interrupt is masked (PIO_ISR), more coalesce.*)
(***************************************************************************)
EXTENDS Naturals, Sequences

CONSTANTS
  Kinds,        \* the kinds of packet the chip sends
  CallbackOps,  \* the driver calls an application callback makes
  AppOps,       \* the driver calls the rest of the superloop makes
  MaxPackets,   \* bound: packets offered
  MaxGlitches,  \* bound: edges on the IRQ pin that announce nothing
  MaxRestarts,  \* bound: calls of m2m_wifi_deinit and m2m_wifi_init
  CountMod,     \* interruptCount is a uint8_t: 256
  EarlyOffers   \* the chip may offer as soon as EnableInterrupts ran

Malformed == {"corrupt", "group", "empty"}

\* Mutant of Script: a handler that reads on after it has completed.
Script_ReadsAfterDone ==
  [control |-> <<"last", "callback">>,
   event   |-> <<"part", "callback">>,
   bare    |-> <<"callback">>,
   stream  |-> <<"part", "last", "callback", "last", "callback">>,
   stale   |-> <<"part", "done">>,
   short   |-> <<"error", "callback">>,
   accept  |-> <<"last", "callback", "part", "callback">>]

\* What the handler of each kind of packet does, up to its return to hif_isr:
\* "part" is a hif_receive that stops short of the packet's end, "last" one
\* that reaches it or sets isDone, "done" hif_receive(0, NULL, 0, 1), "error"
\* a hif_receive whose arguments do not fit the packet.  An accept reply runs
\* on into the handler of a connect reply (wf_socket.c:183).
Script ==
  [control |-> <<"last", "callback">>,
   event   |-> <<"part", "callback">>,
   bare    |-> <<"callback">>,
   stream  |-> <<"part", "part", "callback", "last", "callback">>,
   stale   |-> <<"part", "done">>,
   short   |-> <<"error", "callback">>,
   accept  |-> <<"last", "callback", "part", "callback">>]

\* The kinds whose handler reads on after it has completed the packet.
Overreading == {"accept"}

\* The driver calls, and the one that wakes the chip with no matching sleep.
Ops == {"send", "pair", "otp", "no_ps", "ps"}
Unpaired == {"otp"}

ASSUME KindsAssumption == Kinds \subseteq DOMAIN Script \cup Malformed
ASSUME OpsAssumption == CallbackOps \subseteq Ops /\ AppOps \subseteq Ops
ASSUME BoundsAssumption ==
  /\ MaxPackets \in Nat
  /\ MaxGlitches \in Nat
  /\ MaxRestarts \in Nat
  /\ CountMod \in Nat \ {0}
  /\ EarlyOffers \in BOOLEAN

VARIABLES
  chipMode, chipSleep, hifRxDone, interruptCount,  \* g_hifContext
  masked, latched,            \* the pin interrupt: PIO_IMR and PIO_ISR
  hostWake,                   \* the wake bits ChipWake sets, ChipSleep clears
  init,                       \* the driver's start-up state
  slot, kind, irqOn,          \* the chip: mailbox, packet in it, IRQ output
  pc, ret, script,            \* where the superloop is
  offered, glitches, restarts,  \* what the bounds count
  erased                      \* history: interruptCount wrapped or hif_init
                              \* erased it, and no edge was counted since

context == <<chipMode, chipSleep, hifRxDone, interruptCount>>
pin     == <<masked, latched>>
chip    == <<slot, kind, irqOn>>
control == <<pc, ret, script>>
counts  == <<offered, glitches, restarts>>
vars    == <<context, pin, hostWake, init, chip, control, counts, erased>>

PCs == {"app", "boot_eint", "boot_irq", "boot_memset", "boot_event",
        "count_mask", "count_read", "dec_mask", "dec_store",
        "isr_wake", "isr_read", "isr_clear", "isr_header", "handler",
        "done_flag", "done_write", "isr_end"}

PlacesOK ==
  /\ chipMode \in {"no_ps", "ps"}
  /\ init \in {"start", "waiting", "complete"}
  /\ slot \in {"free", "offered", "taken"}
  /\ kind \in Kinds \cup {"none"}
  /\ pc \in PCs
  /\ ret \in {"handler", "isr_end"}
  /\ script \in Seq({"part", "last", "done", "error", "callback"})

CountersOK ==
  /\ chipSleep \in 0 .. 255
  /\ interruptCount \in 0 .. CountMod - 1
  /\ offered \in 0 .. MaxPackets
  /\ glitches \in 0 .. MaxGlitches
  /\ restarts \in 0 .. MaxRestarts

FlagsOK ==
  /\ hifRxDone \in BOOLEAN /\ hostWake \in BOOLEAN
  /\ masked \in BOOLEAN /\ latched \in BOOLEAN
  /\ irqOn \in BOOLEAN /\ erased \in BOOLEAN

TypeOK == PlacesOK /\ CountersOK /\ FlagsOK

Init ==
  /\ chipMode = "no_ps" /\ chipSleep = 0
  /\ hifRxDone = FALSE /\ interruptCount = 0
  /\ masked = TRUE /\ latched = FALSE
  /\ hostWake = FALSE
  /\ init = "start"
  /\ slot = "free" /\ kind = "none" /\ irqOn = FALSE
  /\ pc = "app" /\ ret = "isr_end" /\ script = << >>
  /\ offered = 0 /\ glitches = 0 /\ restarts = 0
  /\ erased = FALSE
-----------------------------------------------------------------------------
(* The pin and the chip.                                                   *)

\* Mutant of EintEnable: the status read that wifi.c:65 has commented out.
EintEnable_ReadsStatus == masked' = FALSE /\ latched' = FALSE

EintEnable == masked' = FALSE /\ UNCHANGED latched
EintDisable == masked' = TRUE /\ UNCHANGED latched

\* PIOA_Handler: reading PIO_ISR clears the latch.
m2m_EintHandler ==
  /\ latched
  /\ ~masked
  /\ latched' = FALSE
  /\ interruptCount' = IF interruptCount + 1 = CountMod THEN 0
                       ELSE interruptCount + 1
  /\ erased' = (interruptCount + 1 = CountMod)
  /\ UNCHANGED <<chipMode, chipSleep, hifRxDone, masked, hostWake, init, chip,
                 control, counts>>

ChipOffers ==
  /\ irqOn
  /\ EarlyOffers \/ init = "complete"
  /\ slot = "free"
  /\ offered < MaxPackets
  /\ slot' = "offered"
  /\ kind' \in Kinds
  /\ latched' = TRUE
  /\ offered' = offered + 1
  /\ UNCHANGED <<context, masked, hostWake, init, irqOn, control, glitches,
                 restarts, erased>>

Glitch ==
  /\ glitches < MaxGlitches
  /\ latched' = TRUE
  /\ glitches' = glitches + 1
  /\ UNCHANGED <<context, masked, hostWake, init, chip, control, offered,
                 restarts, erased>>
-----------------------------------------------------------------------------
(* Waking the chip and letting it sleep.  State is threaded through the    *)
(* operators as records of chipSleep and hostWake, to compose calls.       *)

Power == [sleep |-> chipSleep, wake |-> hostWake]

\* Mutant of hif_chip_wake: the counter is compared after its increment.
hif_chip_wake_TestsLate(p) ==
  IF hifRxDone THEN p
  ELSE [sleep |-> (p.sleep + 1) % 256,
        wake  |-> p.wake \/ (p.sleep + 1 = 0 /\ chipMode # "no_ps")]

hif_chip_wake(p) ==
  IF hifRxDone THEN p
  ELSE [sleep |-> (p.sleep + 1) % 256,
        wake  |-> p.wake \/ (p.sleep = 0 /\ chipMode # "no_ps")]

\* Mutant of hif_chip_sleep_sc: the test for zero is off by one.
hif_chip_sleep_sc_Underflows(p) ==
  [p EXCEPT !.sleep = IF @ >= 0 THEN @ - 1 ELSE 0]

hif_chip_sleep_sc(p) == [p EXCEPT !.sleep = IF @ >= 1 THEN @ - 1 ELSE 0]

hif_chip_sleep(p) ==
  LET q == hif_chip_sleep_sc(p)
  IN [q EXCEPT !.wake = @ /\ ~(q.sleep = 0 /\ chipMode # "no_ps")]

\* Mutant of hif_send: one of its paths out misses ChipSleep.
hif_send_StaysAwake(p) == [p EXCEPT !.wake = TRUE]

\* hif_send wakes the chip and ends, on success and on failure alike, with
\* ChipSleep, whatever chipSleep says.
hif_send(p) == [p EXCEPT !.wake = FALSE]

SetPower(p) == chipSleep' = p.sleep /\ hostWake' = p.wake

\* The driver calls open to the application: a request (hif_send), a register
\* read between hif_chip_wake and hif_chip_sleep (m2m_wifi_get_mac_address,
\* nm_get_firmware_info), m2m_wifi_set_sleep_mode, and the path through
\* m2m_wifi_get_otp_mac_address that returns before its hif_chip_sleep.
DriverCall(op) ==
  /\ SetPower(CASE op = "pair" -> hif_chip_sleep(hif_chip_wake(Power))
                [] op = "otp" -> hif_chip_wake(Power)
                [] OTHER -> hif_send(Power))
  /\ chipMode' = IF op \in {"no_ps", "ps"} THEN op ELSE chipMode
  /\ UNCHANGED <<hifRxDone, interruptCount, pin, init, chip, control, counts,
                 erased>>

\* The chip is awake for the host: it never sleeps, or the wake bits are set.
Awake == chipMode = "no_ps" \/ hostWake
-----------------------------------------------------------------------------
(* Start-up and shut-down.                                                 *)

Goto(label) == pc' = label /\ UNCHANGED <<ret, script>>

\* A turn of m2m_wifi_task: a step of the start-up unless it is complete,
\* then hif_handle_isr.  The first step pulls the chip's reset pin.
m2m_wifi_task ==
  /\ pc = "app"
  /\ \/ /\ init = "start"
        /\ init' = "waiting"
        /\ slot' = "free" /\ irqOn' = FALSE
        /\ Goto("count_mask")
     \/ /\ init = "waiting"
        /\ \E label \in {"count_mask", "boot_eint"} : Goto(label)
        /\ UNCHANGED <<init, slot, irqOn>>
     \/ /\ init = "complete"
        /\ Goto("count_mask")
        /\ UNCHANGED <<init, slot, irqOn>>
  /\ UNCHANGED <<context, pin, hostWake, kind, counts, erased>>

BootEintEnable ==
  /\ pc = "boot_eint"
  /\ EintEnable
  /\ Goto("boot_irq")
  /\ UNCHANGED <<context, hostWake, init, chip, counts, erased>>

EnableInterrupts ==
  /\ pc = "boot_irq"
  /\ irqOn' = TRUE
  /\ Goto("boot_memset")
  /\ UNCHANGED <<context, pin, hostWake, init, slot, kind, counts, erased>>

hif_init ==
  /\ pc = "boot_memset"
  /\ chipMode' = "no_ps" /\ chipSleep' = 0
  /\ hifRxDone' = FALSE /\ interruptCount' = 0
  /\ erased' = (erased \/ interruptCount > 0)
  /\ EintEnable
  /\ init' = "complete"
  /\ Goto("boot_event")
  /\ UNCHANGED <<hostWake, chip, counts>>

\* M2M_WIFI_DRIVER_INIT_EVENT and nm_get_firmware_info.
DriverInitEvent ==
  /\ pc = "boot_event"
  /\ SetPower(hif_chip_sleep(hif_chip_wake(Power)))
  /\ Goto("count_mask")
  /\ UNCHANGED <<chipMode, hifRxDone, interruptCount, pin, init, chip, counts,
                 erased>>

\* hif_deinit's hif_chip_wake acts on a context that is then erased; the
\* chip's CPU is halted.
m2m_wifi_deinit ==
  /\ pc = "app" /\ init = "complete"
  /\ restarts < MaxRestarts
  /\ hostWake' = hif_chip_wake(Power).wake
  /\ chipMode' = "no_ps" /\ chipSleep' = 0
  /\ hifRxDone' = FALSE /\ interruptCount' = 0
  /\ slot' = "free" /\ irqOn' = FALSE
  /\ restarts' = restarts + 1
  /\ UNCHANGED <<pin, init, kind, control, offered, glitches, erased>>

m2m_wifi_init ==
  /\ pc = "app" /\ init = "complete"
  /\ restarts < MaxRestarts
  /\ init' = "start"
  /\ restarts' = restarts + 1
  /\ UNCHANGED <<context, pin, hostWake, chip, control, offered, glitches,
                 erased>>

\* Only a started driver is called.
AppCall ==
  /\ pc = "app" /\ init = "complete" /\ irqOn
  /\ \E op \in AppOps : DriverCall(op)
-----------------------------------------------------------------------------
(* hif_handle_isr: while (GetInterruptCount() > 0) {                       *)
(*   DecrementInterruptCount(); hif_isr(); }                               *)

CountMask ==
  /\ pc = "count_mask"
  /\ EintDisable
  /\ Goto("count_read")
  /\ UNCHANGED <<context, hostWake, init, chip, counts, erased>>

\* Mutants of CountRead: the pin stays masked; one interrupt is left over.
CountRead_StaysMasked ==
  /\ pc = "count_read"
  /\ UNCHANGED pin
  /\ Goto(IF interruptCount > 0 THEN "dec_mask" ELSE "app")
  /\ UNCHANGED <<context, hostWake, init, chip, counts, erased>>

CountRead_LeavesOne ==
  /\ pc = "count_read"
  /\ EintEnable
  /\ Goto(IF interruptCount > 1 THEN "dec_mask" ELSE "app")
  /\ UNCHANGED <<context, hostWake, init, chip, counts, erased>>

CountRead ==
  /\ pc = "count_read"
  /\ EintEnable
  /\ Goto(IF interruptCount > 0 THEN "dec_mask" ELSE "app")
  /\ UNCHANGED <<context, hostWake, init, chip, counts, erased>>

DecrementMask ==
  /\ pc = "dec_mask"
  /\ EintDisable
  /\ Goto("dec_store")
  /\ UNCHANGED <<context, hostWake, init, chip, counts, erased>>

DecrementStore ==
  /\ pc = "dec_store"
  /\ interruptCount' = IF interruptCount = 0 THEN CountMod - 1
                       ELSE interruptCount - 1
  /\ EintEnable
  /\ Goto("isr_wake")
  /\ UNCHANGED <<chipMode, chipSleep, hifRxDone, hostWake, init, chip, counts,
                 erased>>

IsrWake ==
  /\ pc = "isr_wake"
  /\ SetPower(hif_chip_wake(Power))
  /\ Goto("isr_read")
  /\ UNCHANGED <<chipMode, hifRxDone, interruptCount, pin, init, chip, counts,
                 erased>>

\* RCV_CTRL_0 bit 0 says whether a packet is there; if not, the interrupt was
\* a false one and only an error event is generated.
IsrRead ==
  /\ pc = "isr_read"
  /\ \/ slot = "offered" /\ EintDisable /\ Goto("isr_clear")
     \/ slot # "offered" /\ UNCHANGED pin /\ Goto("isr_end")
  /\ UNCHANGED <<context, hostWake, init, chip, counts, erased>>

\* Mutant of IsrClear: nothing records that the chip waits for RX done.
IsrClear_ForgetsFlag ==
  /\ pc = "isr_clear"
  /\ slot' = "taken"
  /\ Goto("isr_header")
  /\ UNCHANGED <<context, pin, hostWake, init, kind, irqOn, counts, erased>>

IsrClear ==
  /\ pc = "isr_clear"
  /\ slot' = "taken"
  /\ hifRxDone' = TRUE
  /\ Goto("isr_header")
  /\ UNCHANGED <<chipMode, chipSleep, interruptCount, pin, hostWake, init, kind,
                 irqOn, counts, erased>>

\* Mutant of IsrReject: the error return misses hif_chip_sleep_sc.
IsrReject_KeepsCount ==
  /\ pc = "isr_header"
  /\ kind \in Malformed
  /\ IF kind = "corrupt" THEN EintEnable ELSE UNCHANGED pin
  /\ Goto("count_mask")
  /\ UNCHANGED <<context, hostWake, init, chip, counts, erased>>

\* A malformed packet ends hif_isr at once: no dispatch, no RX done, and the
\* pin is unmasked on one of the three paths only.
IsrReject ==
  /\ pc = "isr_header"
  /\ kind \in Malformed
  /\ IF kind = "corrupt" THEN EintEnable ELSE UNCHANGED pin
  /\ SetPower(hif_chip_sleep_sc(Power))
  /\ Goto("count_mask")
  /\ UNCHANGED <<chipMode, hifRxDone, interruptCount, init, chip, counts, erased>>

IsrDispatch ==
  /\ pc = "isr_header"
  /\ kind \in DOMAIN Script
  /\ script' = Script[kind]
  /\ pc' = "handler"
  /\ UNCHANGED <<context, pin, hostWake, init, chip, ret, counts, erased>>

\* The step of the packet's handler that is next, and the end of it.
NextIs(step) == pc = "handler" /\ script # << >> /\ Head(script) = step
StepDone == script' = Tail(script)

\* A hif_receive that reads without completing, or is refused.
hif_receive ==
  /\ NextIs("part") \/ NextIs("error")
  /\ StepDone
  /\ UNCHANGED <<context, pin, hostWake, init, chip, pc, ret, counts, erased>>

\* A hif_receive that completes the packet goes on to hif_set_rx_done.
ReceiveDone ==
  /\ NextIs("last") \/ NextIs("done")
  /\ StepDone
  /\ pc' = "done_flag"
  /\ ret' = "handler"
  /\ UNCHANGED <<context, pin, hostWake, init, chip, counts, erased>>

CallbackCall ==
  /\ NextIs("callback")
  /\ \E op \in CallbackOps : DriverCall(op)

CallbackReturn ==
  /\ NextIs("callback")
  /\ StepDone
  /\ UNCHANGED <<context, pin, hostWake, init, chip, pc, ret, counts, erased>>

\* Mutants of HandlerReturn: the packet is completed again; never.
HandlerReturn_Always ==
  /\ pc = "handler"
  /\ script = << >>
  /\ pc' = "done_flag"
  /\ ret' = "isr_end"
  /\ UNCHANGED <<context, pin, hostWake, init, chip, script, counts, erased>>

HandlerReturn_Never ==
  /\ pc = "handler"
  /\ script = << >>
  /\ pc' = "isr_end"
  /\ ret' = "isr_end"
  /\ UNCHANGED <<context, pin, hostWake, init, chip, script, counts, erased>>

\* hif_isr completes the packet itself if the handler did not.
HandlerReturn ==
  /\ pc = "handler"
  /\ script = << >>
  /\ pc' = IF hifRxDone THEN "done_flag" ELSE "isr_end"
  /\ ret' = "isr_end"
  /\ UNCHANGED <<context, pin, hostWake, init, chip, script, counts, erased>>

\* hif_set_rx_done: the flag and the pin first, the chip's register after.
SetRxDoneFlag ==
  /\ pc = "done_flag"
  /\ hifRxDone' = FALSE
  /\ EintEnable
  /\ Goto("done_write")
  /\ UNCHANGED <<chipMode, chipSleep, interruptCount, hostWake, init, chip,
                 counts, erased>>

SetRxDoneWrite ==
  /\ pc = "done_write"
  /\ slot' = "free"
  /\ EintEnable
  /\ Goto(ret)
  /\ UNCHANGED <<context, hostWake, init, kind, irqOn, counts, erased>>

IsrEnd ==
  /\ pc = "isr_end"
  /\ SetPower(hif_chip_sleep(Power))
  /\ EintEnable
  /\ Goto("count_mask")
  /\ UNCHANGED <<chipMode, hifRxDone, interruptCount, init, chip, counts, erased>>
-----------------------------------------------------------------------------
Environment == m2m_EintHandler \/ ChipOffers \/ Glitch

Boot ==
  \/ BootEintEnable \/ EnableInterrupts \/ hif_init \/ DriverInitEvent

Service ==
  \/ CountMask \/ CountRead \/ DecrementMask \/ DecrementStore
  \/ IsrWake \/ IsrRead \/ IsrClear \/ IsrReject \/ IsrDispatch
  \/ hif_receive \/ ReceiveDone \/ CallbackReturn \/ HandlerReturn
  \/ SetRxDoneFlag \/ SetRxDoneWrite \/ IsrEnd

Application == AppCall \/ CallbackCall \/ m2m_wifi_deinit \/ m2m_wifi_init

Next == Environment \/ Boot \/ Service \/ Application \/ m2m_wifi_task

Spec == Init /\ [][Next]_vars

\* The superloop keeps turning and callbacks return.  A pending interrupt is
\* taken once it is unmasked, however briefly: the processor looks at every
\* instruction.  Nothing makes the chip send or the start-up succeed.
Fairness ==
  /\ WF_vars(m2m_wifi_task)
  /\ WF_vars(Boot)
  /\ WF_vars(Service)
  /\ SF_vars(m2m_EintHandler)

FairSpec == Spec /\ Fairness
-----------------------------------------------------------------------------
(* Properties.                                                             *)

\* A packet waiting in the mailbox is on its way to the superloop: its edge is
\* latched, counted, or hif_isr is about to read the register.  Two places lose
\* one until the next edge: the counter's wrap (wf_hif.c:74) and hif_init, whose
\* memset runs after EnableInterrupts (wf_wifi.c:169-171); the decrement before
\* hif_isr does not (wf_hif.c:460-462).
NoLostInterrupt ==
  slot = "offered" =>
    \/ latched
    \/ interruptCount > 0
    \/ pc \in {"isr_wake", "isr_read", "isr_clear"}
    \/ erased

\* hifRxDone is the driver's record that the chip waits for RX done, and the
\* two agree except between the flag and the register write of
\* hif_set_rx_done (wf_hif.c:80-101).
RxDoneTracksPacket ==
  init = "complete" =>
    /\ hifRxDone => slot = "taken"
    /\ slot = "taken" => hifRxDone \/ pc = "done_write"

\* Whatever the handlers do, receive memory is read, and completed, only while
\* the chip holds the packet for the driver (wf_hif.c:480-522).  It holds of
\* every kind of packet but the Overreading.
ReadsOwnPacket ==
  (pc = "isr_header" \/ NextIs("part") \/ NextIs("last") \/ NextIs("done"))
    => slot = "taken"

\* The mailbox moves free, offered, taken, free: RX done is never written for
\* a packet the driver has not taken, so none is released unread.
MailboxProtocol ==
  [][slot' # slot =>
       \/ slot = "free" /\ slot' = "offered"
       \/ slot = "offered" /\ slot' = "taken"
       \/ slot = "taken" /\ slot' = "free"
       \/ slot' = "free" /\ ~irqOn']_vars

\* The error returns of hif_isr leave the pin masked; the superloop never gets
\* back to the application like that (wf_hif.c:393-439, 560-568).
UnmaskedOutsideService == pc = "app" /\ init # "start" => ~masked

\* Between turns of the driver the mailbox is free or waiting, except after a
\* malformed packet, for which no path of hif_isr ever sends RX done.
HeldOnlyByMalformed ==
  pc = "app" /\ init = "complete" /\ slot = "taken" => kind \in Malformed

\* Wake and sleep calls balance over every path, early returns and calls made
\* from callbacks included (wf_hif.c:109-126, 182-204), if no call is Unpaired.
SleepBalanced == pc = "app" => chipSleep = 0

\* While hif_isr and the handlers it calls touch the chip, it is awake.
AwakeDuringService ==
  pc \in {"isr_read", "isr_clear", "isr_header", "handler", "done_flag",
          "done_write", "isr_end"} => Awake

\* wf_hif.c:113 says, where hif_chip_wake returns at once because hifRxDone is
\* set, "chip already wake for the rx not done no need to send wake request".
SkippedWakeFindsChipAwake == hifRxDone => Awake

\* In a power-save mode no call leaves the chip forced awake when the driver
\* has nothing to do.
MaySleepWhenIdle == pc = "app" /\ chipMode = "ps" => ~hostWake

\* Every well-formed packet is eventually released, whatever edges coalesced
\* and whatever its callbacks call; a malformed one may stay for ever.
EventuallyServed == slot = "offered" ~> (slot = "free" \/ kind \in Malformed)
=============================================================================
