----------------------------- MODULE HifProofs ------------------------------
(***************************************************************************)
(* Theorems about Hif for every set of packet kinds, every set of calls    *)
(* the application makes, and every bound on packets, glitches and         *)
(* restarts.  The mailbox discipline rests on one fact about the packet    *)
(* handlers, that none completes a packet twice; that packets are read     *)
(* only while held rests on a stronger one, that none reads on afterwards. *)
(***************************************************************************)
EXTENDS Hif, TLAPS

Step == {"part", "last", "done", "error", "callback"}
Completing == {"last", "done"}
Touch == {"part", "last", "done"}

\* s has no step of T after the one that completes the packet.
Sound(s, T) ==
  \A i, j \in 1 .. Len(s) : i < j /\ s[i] \in Completing => s[j] \notin T

\* s has no step of T.
Quiet(s, T) == \A i \in 1 .. Len(s) : s[i] \notin T

\* Every handler completes its packet once, and every one but that of the
\* accept reply leaves the packet alone afterwards.
LEMMA ScriptSound ==
  ASSUME NEW k \in DOMAIN Script
  PROVE  /\ Script[k] \in Seq(Step)
         /\ Sound(Script[k], Completing)
         /\ k \notin Overreading => Sound(Script[k], Touch)
<1> USE DEF Script, Sound, Step, Touch, Completing, Overreading
<1>1. CASE k = "control"
  BY <1>1
<1>2. CASE k = "event"
  BY <1>2
<1>3. CASE k = "bare"
  BY <1>3
<1>4. CASE k = "stream"
  BY <1>4
<1>5. CASE k = "stale"
  BY <1>5
<1>6. CASE k = "short"
  BY <1>6
<1>7. CASE k = "accept"
  BY <1>7
<1> QED
  BY <1>1, <1>2, <1>3, <1>4, <1>5, <1>6, <1>7

\* Taking the first step of a sound script leaves a sound one, and a quiet one
\* if the step completed the packet.
LEMMA TailSound ==
  ASSUME NEW s \in Seq(Step), NEW T, s # << >>, Sound(s, T)
  PROVE  /\ Tail(s) \in Seq(Step)
         /\ Sound(Tail(s), T)
         /\ Head(s) \in Completing => Quiet(Tail(s), T)
         /\ Quiet(s, T) => Quiet(Tail(s), T) /\ Head(s) \notin T
<1>1. /\ Tail(s) \in Seq(Step)
      /\ Len(Tail(s)) = Len(s) - 1
      /\ Head(s) = s[1]
      /\ \A i \in 1 .. Len(Tail(s)) : Tail(s)[i] = s[i + 1]
      /\ Len(s) \in Nat \ {0}
  OBVIOUS
<1>2. \A i \in 1 .. Len(Tail(s)) : i + 1 \in 1 .. Len(s)
  BY <1>1
<1>3. Sound(Tail(s), T)
  BY <1>1, <1>2 DEF Sound
<1>4. Head(s) \in Completing => Quiet(Tail(s), T)
  BY <1>1, <1>2 DEF Sound, Quiet
<1>5. Quiet(s, T) => Quiet(Tail(s), T) /\ Head(s) \notin T
  BY <1>1, <1>2 DEF Quiet
<1> QED
  BY <1>1, <1>3, <1>4, <1>5
-----------------------------------------------------------------------------
(* The inductive invariant, by the part of the state it speaks of.         *)

\* Where the superloop does not serve a packet it has taken.
Between == {"app", "boot_eint", "boot_irq", "boot_memset", "boot_event",
            "count_mask", "count_read", "dec_mask", "dec_store",
            "isr_wake", "isr_read", "isr_end"}

\* Until hif_init the mailbox is out of use, but for the window between
\* EnableInterrupts and hif_init.
BootInv ==
  /\ pc \in {"boot_eint", "boot_irq", "boot_memset"} => init = "waiting"
  /\ init = "start" => pc = "app"
  /\ init = "waiting" =>
       /\ pc # "boot_memset" => slot = "free" /\ ~irqOn
       /\ slot # "taken"

\* What the superloop's position says of the mailbox and of hifRxDone.
PacketInv ==
  /\ pc = "isr_clear" => slot = "offered" /\ init = "complete"
  /\ pc \in {"isr_header", "done_flag"} =>
       slot = "taken" /\ hifRxDone /\ init = "complete"
  /\ pc = "done_write" => slot = "taken" /\ ~hifRxDone /\ init = "complete"
  /\ pc = "handler" => init = "complete"
  /\ slot # "free" => kind \in Kinds
  /\ HeldOnlyByMalformed
  /\ pc \in Between /\ init = "complete" /\ slot = "taken" => kind \in Malformed

\* What is left of the handler has no step of T once the packet is completed.
ScriptInv(T) ==
  /\ pc = "handler" => Sound(script, T) /\ (hifRxDone \/ Quiet(script, T))
  /\ pc \in {"done_flag", "done_write"} /\ ret = "handler" =>
       Sound(script, T) /\ Quiet(script, T)

PowerInv ==
  /\ chipSleep \in {0, 1}
  /\ pc \in Between \ {"isr_read", "isr_end"} => chipSleep = 0

MailboxInv ==
  TypeOK /\ BootInv /\ PacketInv /\ ScriptInv(Completing) /\ RxDoneTracksPacket
-----------------------------------------------------------------------------
PowerRecord == [sleep : 0 .. 255, wake : BOOLEAN]

LEMMA PowerType ==
  ASSUME TypeOK
  PROVE  /\ Power \in PowerRecord
         /\ \A p \in PowerRecord :
              /\ hif_chip_wake(p) \in PowerRecord
              /\ hif_chip_sleep_sc(p) \in PowerRecord
              /\ hif_chip_sleep(p) \in PowerRecord
              /\ hif_send(p) \in PowerRecord
              /\ SetPower(p) => chipSleep' \in 0 .. 255 /\ hostWake' \in BOOLEAN
<1> USE DEF PowerRecord
<1>1. Power \in PowerRecord
  BY DEF TypeOK, CountersOK, FlagsOK, Power
<1> SUFFICES ASSUME NEW p \in PowerRecord
             PROVE  /\ hif_chip_wake(p) \in PowerRecord
                    /\ hif_chip_sleep_sc(p) \in PowerRecord
                    /\ hif_chip_sleep(p) \in PowerRecord
                    /\ hif_send(p) \in PowerRecord
                    /\ SetPower(p) => /\ chipSleep' \in 0 .. 255
                                      /\ hostWake' \in BOOLEAN
  BY <1>1
<1>2. hif_chip_wake(p) \in PowerRecord
  BY DEF hif_chip_wake
<1>3. hif_chip_sleep_sc(p) \in PowerRecord
  BY DEF hif_chip_sleep_sc
<1>4. hif_chip_sleep(p) \in PowerRecord
  BY <1>3 DEF hif_chip_sleep
<1>5. hif_send(p) \in PowerRecord
  BY DEF hif_send
<1> QED
  BY <1>2, <1>3, <1>4, <1>5 DEF SetPower

\* Taking a step of a handler leaves a handler.
LEMMA StepDoneType ==
  ASSUME TypeOK, script # << >>, StepDone
  PROVE  script' \in Seq(Step)
BY DEF TypeOK, PlacesOK, StepDone, Step

LEMMA TypeStep == TypeOK /\ [Next]_vars => TypeOK'
<1> SUFFICES ASSUME PlacesOK, CountersOK, FlagsOK, [Next]_vars
             PROVE  PlacesOK' /\ CountersOK' /\ FlagsOK'
  BY DEF TypeOK
<1>0. TypeOK
  BY DEF TypeOK
<1> USE BoundsAssumption
    DEF PlacesOK, CountersOK, FlagsOK, PCs, context, pin, chip, control, counts,
        EintEnable, EintDisable, Goto
<1>1. CASE Environment
  <2> USE <1>1 DEF Environment, m2m_EintHandler, ChipOffers, Glitch
  <2>1. PlacesOK'
    <3>1. CASE m2m_EintHandler
      BY <3>1
    <3>2. CASE ChipOffers
      BY <3>2
    <3>3. CASE Glitch
      BY <3>3
    <3> QED
      BY <3>1, <3>2, <3>3
  <2>2. CountersOK'
    <3>1. CASE m2m_EintHandler
      BY <3>1
    <3>2. CASE ChipOffers
      BY <3>2
    <3>3. CASE Glitch
      BY <3>3
    <3> QED
      BY <3>1, <3>2, <3>3
  <2>3. FlagsOK' OBVIOUS
  <2> QED BY <2>1, <2>2, <2>3
<1>2. CASE BootEintEnable \/ EnableInterrupts \/ hif_init
  <2> USE <1>2 DEF BootEintEnable, EnableInterrupts, hif_init
  <2>1. PlacesOK'
    <3>1. CASE BootEintEnable
      BY <3>1
    <3>2. CASE EnableInterrupts
      BY <3>2
    <3>3. CASE hif_init
      BY <3>3
    <3> QED
      BY <3>1, <3>2, <3>3
  <2>2. CountersOK'
    <3>1. CASE BootEintEnable
      BY <3>1
    <3>2. CASE EnableInterrupts
      BY <3>2
    <3>3. CASE hif_init
      BY <3>3
    <3> QED
      BY <3>1, <3>2, <3>3
  <2>3. FlagsOK' OBVIOUS
  <2> QED BY <2>1, <2>2, <2>3
<1>3. CASE DriverInitEvent \/ IsrWake \/ IsrReject \/ IsrEnd
  <2>1. chipSleep' \in 0 .. 255 /\ hostWake' \in BOOLEAN
    BY <1>0, <1>3, PowerType DEF DriverInitEvent, IsrWake, IsrReject, IsrEnd
  <2> USE <1>3, <2>1 DEF DriverInitEvent, IsrWake, IsrReject, IsrEnd
  <2>2. PlacesOK' OBVIOUS
  <2>3. CountersOK' OBVIOUS
  <2>4. FlagsOK' OBVIOUS
  <2> QED BY <2>2, <2>3, <2>4
<1>4. CASE AppCall \/ CallbackCall
  <2>1. PICK op \in Ops : DriverCall(op)
    BY <1>4, OpsAssumption DEF AppCall, CallbackCall
  <2>2. chipSleep' \in 0 .. 255 /\ hostWake' \in BOOLEAN
    BY <1>0, <2>1, PowerType DEF DriverCall
  <2>3. chipMode' \in {"no_ps", "ps"}
    BY <2>1 DEF DriverCall
  <2> USE <2>1, <2>2, <2>3 DEF DriverCall
  <2>4. PlacesOK' OBVIOUS
  <2>5. CountersOK' OBVIOUS
  <2>6. FlagsOK' OBVIOUS
  <2> QED BY <2>4, <2>5, <2>6
<1>5. CASE m2m_wifi_deinit
  <2>1. hostWake' \in BOOLEAN
    BY <1>0, <1>5, PowerType DEF m2m_wifi_deinit, PowerRecord
  <2> USE <1>5, <2>1 DEF m2m_wifi_deinit
  <2>2. PlacesOK' OBVIOUS
  <2>3. CountersOK' OBVIOUS
  <2>4. FlagsOK' OBVIOUS
  <2> QED BY <2>2, <2>3, <2>4
<1>6. CASE m2m_wifi_init \/ m2m_wifi_task
  <2> USE <1>6 DEF m2m_wifi_init, m2m_wifi_task
  <2>1. PlacesOK'
    <3>1. CASE m2m_wifi_init
      BY <3>1
    <3>2. CASE m2m_wifi_task
      BY <3>2
    <3> QED
      BY <3>1, <3>2
  <2>2. CountersOK'
    <3>1. CASE m2m_wifi_init
      BY <3>1
    <3>2. CASE m2m_wifi_task
      BY <3>2
    <3> QED
      BY <3>1, <3>2
  <2>3. FlagsOK' OBVIOUS
  <2> QED BY <2>1, <2>2, <2>3
<1>7. CASE CountMask \/ CountRead \/ DecrementMask \/ DecrementStore
  <2> USE <1>7 DEF CountMask, CountRead, DecrementMask, DecrementStore
  <2>1. PlacesOK'
    <3>1. CASE CountMask
      BY <3>1
    <3>2. CASE CountRead
      BY <3>2
    <3>3. CASE DecrementMask
      BY <3>3
    <3>4. CASE DecrementStore
      BY <3>4
    <3> QED
      BY <3>1, <3>2, <3>3, <3>4
  <2>2. CountersOK'
    <3>1. CASE CountMask
      BY <3>1
    <3>2. CASE CountRead
      BY <3>2
    <3>3. CASE DecrementMask
      BY <3>3
    <3>4. CASE DecrementStore
      BY <3>4
    <3> QED
      BY <3>1, <3>2, <3>3, <3>4
  <2>3. FlagsOK' OBVIOUS
  <2> QED BY <2>1, <2>2, <2>3
<1>8. CASE IsrRead \/ IsrClear \/ HandlerReturn \/ SetRxDoneFlag \/ SetRxDoneWrite
  <2> USE <1>8 DEF IsrRead, IsrClear, HandlerReturn, SetRxDoneFlag, SetRxDoneWrite
  <2>1. PlacesOK' OBVIOUS
  <2>2. CountersOK' OBVIOUS
  <2>3. FlagsOK' OBVIOUS
  <2> QED BY <2>1, <2>2, <2>3
<1>9. CASE IsrDispatch \/ hif_receive \/ ReceiveDone \/ CallbackReturn
  <2>1. script' \in Seq(Step)
    BY <1>0, <1>9, ScriptSound, StepDoneType
       DEF IsrDispatch, hif_receive, ReceiveDone, CallbackReturn, NextIs
  <2> USE <1>9, <2>1
      DEF IsrDispatch, hif_receive, ReceiveDone, CallbackReturn, NextIs, Step
  <2>2. PlacesOK' OBVIOUS
  <2>3. CountersOK' OBVIOUS
  <2>4. FlagsOK' OBVIOUS
  <2> QED BY <2>2, <2>3, <2>4
<1>10. CASE UNCHANGED vars
  <2> USE <1>10 DEF vars
  <2>1. PlacesOK' OBVIOUS
  <2>2. CountersOK' OBVIOUS
  <2>3. FlagsOK' OBVIOUS
  <2> QED BY <2>1, <2>2, <2>3
<1> QED
  BY <1>1, <1>2, <1>3, <1>4, <1>5, <1>6, <1>7, <1>8, <1>9, <1>10
     DEF Next, Boot, Service, Application

\* Every variable of the host interface keeps its type.
THEOREM TypeCorrect == Spec => []TypeOK
<1>1. Init => TypeOK
  <2> SUFFICES ASSUME Init
               PROVE  PlacesOK /\ CountersOK /\ FlagsOK
    BY DEF TypeOK
  <2>1. PlacesOK
    BY DEF Init, PlacesOK, PCs
  <2>2. CountersOK
    BY BoundsAssumption DEF Init, CountersOK
  <2>3. FlagsOK
    BY DEF Init, FlagsOK
  <2> QED
    BY <2>1, <2>2, <2>3
<1> QED
  BY <1>1, TypeStep, PTL DEF Spec
-----------------------------------------------------------------------------
(* The steps keep each part of the inductive invariant.                    *)

\* The way back to the application unmasks the pin.
LEMMA UnmaskedStep ==
  ASSUME UnmaskedOutsideService, [Next]_vars
  PROVE  UnmaskedOutsideService'
<1> USE DEF context, pin, chip, control, counts, Goto, EintEnable, EintDisable,
            SetPower, NextIs,
            UnmaskedOutsideService
<1>1. CASE m2m_EintHandler
  BY <1>1 DEF m2m_EintHandler
<1>2. CASE ChipOffers
  BY <1>2 DEF ChipOffers
<1>3. CASE Glitch
  BY <1>3 DEF Glitch
<1>4. CASE BootEintEnable
  BY <1>4 DEF BootEintEnable
<1>5. CASE EnableInterrupts
  BY <1>5 DEF EnableInterrupts
<1>6. CASE hif_init
  BY <1>6 DEF hif_init
<1>7. CASE DriverInitEvent
  BY <1>7 DEF DriverInitEvent
<1>8. CASE CountMask
  BY <1>8 DEF CountMask
<1>9. CASE CountRead
  BY <1>9 DEF CountRead
<1>10. CASE DecrementMask
  BY <1>10 DEF DecrementMask
<1>11. CASE DecrementStore
  BY <1>11 DEF DecrementStore
<1>12. CASE IsrWake
  BY <1>12 DEF IsrWake
<1>13. CASE IsrRead
  BY <1>13 DEF IsrRead
<1>14. CASE IsrClear
  BY <1>14 DEF IsrClear
<1>15. CASE IsrReject
  BY <1>15 DEF IsrReject
<1>16. CASE IsrDispatch
  BY <1>16 DEF IsrDispatch
<1>17. CASE hif_receive
  BY <1>17 DEF hif_receive
<1>18. CASE ReceiveDone
  BY <1>18 DEF ReceiveDone
<1>19. CASE CallbackReturn
  BY <1>19 DEF CallbackReturn
<1>20. CASE HandlerReturn
  BY <1>20 DEF HandlerReturn
<1>21. CASE SetRxDoneFlag
  BY <1>21 DEF SetRxDoneFlag
<1>22. CASE SetRxDoneWrite
  BY <1>22 DEF SetRxDoneWrite
<1>23. CASE IsrEnd
  BY <1>23 DEF IsrEnd
<1>24. CASE AppCall
  BY <1>24 DEF AppCall, DriverCall
<1>25. CASE CallbackCall
  BY <1>25 DEF CallbackCall, DriverCall
<1>26. CASE m2m_wifi_deinit
  BY <1>26 DEF m2m_wifi_deinit
<1>27. CASE m2m_wifi_init
  BY <1>27 DEF m2m_wifi_init
<1>28. CASE m2m_wifi_task
  BY <1>28 DEF m2m_wifi_task
<1>29. CASE UNCHANGED vars
  BY <1>29 DEF vars
<1> QED
  BY <1>1, <1>2, <1>3, <1>4, <1>5, <1>6, <1>7, <1>8, <1>9, <1>10, <1>11, <1>12, <1>13, <1>14,
     <1>15, <1>16, <1>17, <1>18, <1>19, <1>20, <1>21, <1>22, <1>23, <1>24, <1>25, <1>26, <1>27, <1>28, <1>29
     DEF Next, Environment, Boot, Service, Application

\* The start-up reaches hif_init with no packet taken.
LEMMA BootStep ==
  ASSUME TypeOK, BootInv, PacketInv, [Next]_vars
  PROVE  BootInv'
<1>0. ret \in {"handler", "isr_end"}
  BY DEF TypeOK, PlacesOK
<1> USE DEF context, pin, chip, control, counts, Goto, EintEnable, EintDisable,
            SetPower, NextIs, BootInv, PacketInv
<1>1. CASE m2m_EintHandler
  BY <1>1 DEF m2m_EintHandler
<1>2. CASE ChipOffers
  BY <1>2 DEF ChipOffers
<1>3. CASE Glitch
  BY <1>3 DEF Glitch
<1>4. CASE BootEintEnable
  BY <1>4 DEF BootEintEnable
<1>5. CASE EnableInterrupts
  BY <1>5 DEF EnableInterrupts
<1>6. CASE hif_init
  BY <1>6 DEF hif_init
<1>7. CASE DriverInitEvent
  BY <1>7 DEF DriverInitEvent
<1>8. CASE CountMask
  BY <1>8 DEF CountMask
<1>9. CASE CountRead
  BY <1>9 DEF CountRead
<1>10. CASE DecrementMask
  BY <1>10 DEF DecrementMask
<1>11. CASE DecrementStore
  BY <1>11 DEF DecrementStore
<1>12. CASE IsrWake
  BY <1>12 DEF IsrWake
<1>13. CASE IsrRead
  BY <1>13 DEF IsrRead
<1>14. CASE IsrClear
  BY <1>14 DEF IsrClear
<1>15. CASE IsrReject
  BY <1>15 DEF IsrReject
<1>16. CASE IsrDispatch
  BY <1>16 DEF IsrDispatch
<1>17. CASE hif_receive
  BY <1>17 DEF hif_receive
<1>18. CASE ReceiveDone
  BY <1>18 DEF ReceiveDone
<1>19. CASE CallbackReturn
  BY <1>19 DEF CallbackReturn
<1>20. CASE HandlerReturn
  BY <1>20 DEF HandlerReturn
<1>21. CASE SetRxDoneFlag
  BY <1>21 DEF SetRxDoneFlag
<1>22. CASE SetRxDoneWrite
  BY <1>22, <1>0 DEF SetRxDoneWrite
<1>23. CASE IsrEnd
  BY <1>23 DEF IsrEnd
<1>24. CASE AppCall
  BY <1>24 DEF AppCall, DriverCall
<1>25. CASE CallbackCall
  BY <1>25 DEF CallbackCall, DriverCall
<1>26. CASE m2m_wifi_deinit
  BY <1>26 DEF m2m_wifi_deinit
<1>27. CASE m2m_wifi_init
  BY <1>27 DEF m2m_wifi_init
<1>28. CASE m2m_wifi_task
  BY <1>28 DEF m2m_wifi_task
<1>29. CASE UNCHANGED vars
  BY <1>29 DEF vars
<1> QED
  BY <1>1, <1>2, <1>3, <1>4, <1>5, <1>6, <1>7, <1>8, <1>9, <1>10, <1>11, <1>12, <1>13, <1>14,
     <1>15, <1>16, <1>17, <1>18, <1>19, <1>20, <1>21, <1>22, <1>23, <1>24, <1>25, <1>26, <1>27, <1>28, <1>29
     DEF Next, Environment, Boot, Service, Application

\* Only the counter's wrap and hif_init lose an interrupt.
LEMMA NothingLostStep ==
  ASSUME TypeOK, NoLostInterrupt, [Next]_vars
  PROVE  NoLostInterrupt'
<1>0. ret \in {"handler", "isr_end"}
  BY DEF TypeOK, PlacesOK
<1>00. interruptCount \in Nat /\ CountMod \in Nat
  BY BoundsAssumption DEF TypeOK, CountersOK
<1> USE <1>00
<1> USE DEF context, pin, chip, control, counts, Goto, EintEnable, EintDisable,
            SetPower, NextIs, NoLostInterrupt
<1>1. CASE m2m_EintHandler
  <2>1. CASE interruptCount + 1 = CountMod
    BY <1>1, <2>1, Zenon DEF m2m_EintHandler
  <2>2. CASE interruptCount + 1 # CountMod
    BY <1>1, <2>2 DEF m2m_EintHandler
  <2> QED
    BY <2>1, <2>2
<1>2. CASE ChipOffers
  BY <1>2 DEF ChipOffers
<1>3. CASE Glitch
  BY <1>3 DEF Glitch
<1>4. CASE BootEintEnable
  BY <1>4 DEF BootEintEnable
<1>5. CASE EnableInterrupts
  BY <1>5 DEF EnableInterrupts
<1>6. CASE hif_init
  BY <1>6 DEF hif_init
<1>7. CASE DriverInitEvent
  BY <1>7 DEF DriverInitEvent
<1>8. CASE CountMask
  BY <1>8 DEF CountMask
<1>9. CASE CountRead
  BY <1>9 DEF CountRead
<1>10. CASE DecrementMask
  BY <1>10 DEF DecrementMask
<1>11. CASE DecrementStore
  BY <1>11 DEF DecrementStore
<1>12. CASE IsrWake
  BY <1>12 DEF IsrWake
<1>13. CASE IsrRead
  BY <1>13 DEF IsrRead
<1>14. CASE IsrClear
  BY <1>14 DEF IsrClear
<1>15. CASE IsrReject
  BY <1>15 DEF IsrReject
<1>16. CASE IsrDispatch
  BY <1>16 DEF IsrDispatch
<1>17. CASE hif_receive
  BY <1>17 DEF hif_receive
<1>18. CASE ReceiveDone
  BY <1>18 DEF ReceiveDone
<1>19. CASE CallbackReturn
  BY <1>19 DEF CallbackReturn
<1>20. CASE HandlerReturn
  BY <1>20 DEF HandlerReturn
<1>21. CASE SetRxDoneFlag
  BY <1>21 DEF SetRxDoneFlag
<1>22. CASE SetRxDoneWrite
  BY <1>22, <1>0 DEF SetRxDoneWrite
<1>23. CASE IsrEnd
  BY <1>23 DEF IsrEnd
<1>24. CASE AppCall
  BY <1>24 DEF AppCall, DriverCall
<1>25. CASE CallbackCall
  BY <1>25 DEF CallbackCall, DriverCall
<1>26. CASE m2m_wifi_deinit
  BY <1>26 DEF m2m_wifi_deinit
<1>27. CASE m2m_wifi_init
  BY <1>27 DEF m2m_wifi_init
<1>28. CASE m2m_wifi_task
  BY <1>28 DEF m2m_wifi_task
<1>29. CASE UNCHANGED vars
  BY <1>29 DEF vars
<1> QED
  BY <1>1, <1>2, <1>3, <1>4, <1>5, <1>6, <1>7, <1>8, <1>9, <1>10, <1>11, <1>12, <1>13, <1>14,
     <1>15, <1>16, <1>17, <1>18, <1>19, <1>20, <1>21, <1>22, <1>23, <1>24, <1>25, <1>26, <1>27, <1>28, <1>29
     DEF Next, Environment, Boot, Service, Application

\* The flag and the mailbox stay together.
LEMMA RxDoneStep ==
  ASSUME TypeOK, BootInv, PacketInv, RxDoneTracksPacket, [Next]_vars
  PROVE  RxDoneTracksPacket'
<1>0. ret \in {"handler", "isr_end"}
  BY DEF TypeOK, PlacesOK
<1> USE DEF context, pin, chip, control, counts, Goto, EintEnable, EintDisable,
            SetPower, NextIs, BootInv, PacketInv, RxDoneTracksPacket
<1>1. CASE m2m_EintHandler
  BY <1>1 DEF m2m_EintHandler
<1>2. CASE ChipOffers
  BY <1>2 DEF ChipOffers
<1>3. CASE Glitch
  BY <1>3 DEF Glitch
<1>4. CASE BootEintEnable
  BY <1>4 DEF BootEintEnable
<1>5. CASE EnableInterrupts
  BY <1>5 DEF EnableInterrupts
<1>6. CASE hif_init
  BY <1>6 DEF hif_init
<1>7. CASE DriverInitEvent
  BY <1>7 DEF DriverInitEvent
<1>8. CASE CountMask
  BY <1>8 DEF CountMask
<1>9. CASE CountRead
  BY <1>9 DEF CountRead
<1>10. CASE DecrementMask
  BY <1>10 DEF DecrementMask
<1>11. CASE DecrementStore
  BY <1>11 DEF DecrementStore
<1>12. CASE IsrWake
  BY <1>12 DEF IsrWake
<1>13. CASE IsrRead
  BY <1>13 DEF IsrRead
<1>14. CASE IsrClear
  BY <1>14 DEF IsrClear
<1>15. CASE IsrReject
  BY <1>15 DEF IsrReject
<1>16. CASE IsrDispatch
  BY <1>16 DEF IsrDispatch
<1>17. CASE hif_receive
  BY <1>17 DEF hif_receive
<1>18. CASE ReceiveDone
  BY <1>18 DEF ReceiveDone
<1>19. CASE CallbackReturn
  BY <1>19 DEF CallbackReturn
<1>20. CASE HandlerReturn
  BY <1>20 DEF HandlerReturn
<1>21. CASE SetRxDoneFlag
  BY <1>21 DEF SetRxDoneFlag
<1>22. CASE SetRxDoneWrite
  BY <1>22, <1>0 DEF SetRxDoneWrite
<1>23. CASE IsrEnd
  BY <1>23 DEF IsrEnd
<1>24. CASE AppCall
  BY <1>24 DEF AppCall, DriverCall
<1>25. CASE CallbackCall
  BY <1>25 DEF CallbackCall, DriverCall
<1>26. CASE m2m_wifi_deinit
  BY <1>26 DEF m2m_wifi_deinit
<1>27. CASE m2m_wifi_init
  BY <1>27 DEF m2m_wifi_init
<1>28. CASE m2m_wifi_task
  BY <1>28 DEF m2m_wifi_task
<1>29. CASE UNCHANGED vars
  BY <1>29 DEF vars
<1> QED
  BY <1>1, <1>2, <1>3, <1>4, <1>5, <1>6, <1>7, <1>8, <1>9, <1>10, <1>11, <1>12, <1>13, <1>14,
     <1>15, <1>16, <1>17, <1>18, <1>19, <1>20, <1>21, <1>22, <1>23, <1>24, <1>25, <1>26, <1>27, <1>28, <1>29
     DEF Next, Environment, Boot, Service, Application

\* A handler about to take a step of T finds the packet held and not yet
\* completed.
LEMMA StepSound ==
  ASSUME NEW T, TypeOK, PacketInv, ScriptInv(T), RxDoneTracksPacket,
         pc = "handler", script # << >>, Head(script) \in T
  PROVE  hifRxDone /\ slot = "taken"
<1>1. script \in Seq(Step) /\ Sound(script, T)
  BY DEF TypeOK, PlacesOK, Step, ScriptInv
<1>2. ~Quiet(script, T)
  BY <1>1, TailSound
<1> QED
  BY <1>2 DEF ScriptInv, PacketInv, RxDoneTracksPacket

\* The superloop's place follows the packet.
LEMMA PacketStep ==
  ASSUME TypeOK, BootInv, PacketInv, ScriptInv(Completing), RxDoneTracksPacket,
         [Next]_vars
  PROVE  PacketInv'
<1>0. /\ ret \in {"handler", "isr_end"}
      /\ init \in {"start", "waiting", "complete"}
  BY DEF TypeOK, PlacesOK
<1> USE DEF context, pin, chip, control, counts, Goto, EintEnable, EintDisable,
            SetPower, NextIs,
            BootInv, PacketInv, RxDoneTracksPacket, HeldOnlyByMalformed, Between
<1>1. CASE m2m_EintHandler
  BY <1>1 DEF m2m_EintHandler
<1>2. CASE ChipOffers
  BY <1>2 DEF ChipOffers
<1>3. CASE Glitch
  BY <1>3 DEF Glitch
<1>4. CASE BootEintEnable
  BY <1>4 DEF BootEintEnable
<1>5. CASE EnableInterrupts
  BY <1>5 DEF EnableInterrupts
<1>6. CASE hif_init
  BY <1>6 DEF hif_init
<1>7. CASE DriverInitEvent
  BY <1>7 DEF DriverInitEvent
<1>8. CASE CountMask
  BY <1>8 DEF CountMask
<1>9. CASE CountRead
  BY <1>9 DEF CountRead
<1>10. CASE DecrementMask
  BY <1>10 DEF DecrementMask
<1>11. CASE DecrementStore
  BY <1>11 DEF DecrementStore
<1>12. CASE IsrWake
  BY <1>12 DEF IsrWake
<1>13. CASE IsrRead
  BY <1>13, <1>0 DEF IsrRead
<1>14. CASE IsrClear
  BY <1>14 DEF IsrClear
<1>15. CASE IsrReject
  BY <1>15 DEF IsrReject
<1>16. CASE IsrDispatch
  BY <1>16 DEF IsrDispatch
<1>17. CASE hif_receive
  BY <1>17 DEF hif_receive
<1>18. CASE ReceiveDone
  BY <1>18, StepSound DEF ReceiveDone, Completing
<1>19. CASE CallbackReturn
  BY <1>19 DEF CallbackReturn
<1>20. CASE HandlerReturn
  BY <1>20 DEF HandlerReturn
<1>21. CASE SetRxDoneFlag
  BY <1>21 DEF SetRxDoneFlag
<1>22. CASE SetRxDoneWrite
  BY <1>22, <1>0 DEF SetRxDoneWrite
<1>23. CASE IsrEnd
  BY <1>23 DEF IsrEnd
<1>24. CASE AppCall
  BY <1>24 DEF AppCall, DriverCall
<1>25. CASE CallbackCall
  BY <1>25 DEF CallbackCall, DriverCall
<1>26. CASE m2m_wifi_deinit
  BY <1>26 DEF m2m_wifi_deinit
<1>27. CASE m2m_wifi_init
  BY <1>27 DEF m2m_wifi_init
<1>28. CASE m2m_wifi_task
  BY <1>28 DEF m2m_wifi_task
<1>29. CASE UNCHANGED vars
  BY <1>29 DEF vars
<1> QED
  BY <1>1, <1>2, <1>3, <1>4, <1>5, <1>6, <1>7, <1>8, <1>9, <1>10, <1>11, <1>12, <1>13, <1>14,
     <1>15, <1>16, <1>17, <1>18, <1>19, <1>20, <1>21, <1>22, <1>23, <1>24, <1>25, <1>26, <1>27, <1>28, <1>29
     DEF Next, Environment, Boot, Service, Application

\* A handler never gets back a packet it has completed.
LEMMA ScriptStep ==
  ASSUME NEW T, Completing \subseteq T,
         \A k \in Kinds \cap DOMAIN Script : Sound(Script[k], T),
         TypeOK, PacketInv, ScriptInv(T), [Next]_vars
  PROVE  ScriptInv(T)'
<1>0. ret \in {"handler", "isr_end"}
  BY DEF TypeOK, PlacesOK
<1>s. script \in Seq(Step)
  BY DEF TypeOK, PlacesOK, Step
<1>t. pc = "handler" /\ script # << >> =>
        /\ Sound(Tail(script), T)
        /\ Head(script) \in Completing => Quiet(Tail(script), T)
        /\ Quiet(script, T) => Quiet(Tail(script), T)
  BY <1>s, TailSound DEF ScriptInv
<1> USE DEF context, pin, chip, control, counts, Goto, EintEnable, EintDisable,
            SetPower, NextIs, PacketInv, ScriptInv
<1>1. CASE m2m_EintHandler
  BY <1>1 DEF m2m_EintHandler
<1>2. CASE ChipOffers
  BY <1>2 DEF ChipOffers
<1>3. CASE Glitch
  BY <1>3 DEF Glitch
<1>4. CASE BootEintEnable
  BY <1>4 DEF BootEintEnable
<1>5. CASE EnableInterrupts
  BY <1>5 DEF EnableInterrupts
<1>6. CASE hif_init
  BY <1>6 DEF hif_init
<1>7. CASE DriverInitEvent
  BY <1>7 DEF DriverInitEvent
<1>8. CASE CountMask
  BY <1>8 DEF CountMask
<1>9. CASE CountRead
  BY <1>9 DEF CountRead
<1>10. CASE DecrementMask
  BY <1>10 DEF DecrementMask
<1>11. CASE DecrementStore
  BY <1>11 DEF DecrementStore
<1>12. CASE IsrWake
  BY <1>12 DEF IsrWake
<1>13. CASE IsrRead
  BY <1>13 DEF IsrRead
<1>14. CASE IsrClear
  BY <1>14 DEF IsrClear
<1>15. CASE IsrReject
  BY <1>15 DEF IsrReject
<1>16. CASE IsrDispatch
  BY <1>16 DEF IsrDispatch
<1>17. CASE hif_receive
  BY <1>17, <1>t, <1>s DEF hif_receive, StepDone
<1>18. CASE ReceiveDone
  BY <1>18, <1>t, <1>s DEF ReceiveDone, StepDone, Completing
<1>19. CASE CallbackReturn
  BY <1>19, <1>t, <1>s DEF CallbackReturn, StepDone
<1>20. CASE HandlerReturn
  BY <1>20 DEF HandlerReturn
<1>21. CASE SetRxDoneFlag
  BY <1>21, <1>0 DEF SetRxDoneFlag
<1>22. CASE SetRxDoneWrite
  BY <1>22, <1>0 DEF SetRxDoneWrite
<1>23. CASE IsrEnd
  BY <1>23 DEF IsrEnd
<1>24. CASE AppCall
  BY <1>24 DEF AppCall, DriverCall
<1>25. CASE CallbackCall
  BY <1>25 DEF CallbackCall, DriverCall
<1>26. CASE m2m_wifi_deinit
  BY <1>26 DEF m2m_wifi_deinit
<1>27. CASE m2m_wifi_init
  BY <1>27 DEF m2m_wifi_init
<1>28. CASE m2m_wifi_task
  BY <1>28 DEF m2m_wifi_task
<1>29. CASE UNCHANGED vars
  BY <1>29 DEF vars
<1> QED
  BY <1>1, <1>2, <1>3, <1>4, <1>5, <1>6, <1>7, <1>8, <1>9, <1>10, <1>11, <1>12, <1>13, <1>14,
     <1>15, <1>16, <1>17, <1>18, <1>19, <1>20, <1>21, <1>22, <1>23, <1>24, <1>25, <1>26, <1>27, <1>28, <1>29
     DEF Next, Environment, Boot, Service, Application

\* A driver call leaves the wake counter as it found it or lower.
LEMMA CallBalanced ==
  ASSUME PowerInv, NEW op, DriverCall(op), op \notin Unpaired
  PROVE  chipSleep' \in {0, 1} /\ (chipSleep = 0 => chipSleep' = 0)
<1>1. CASE op = "pair"
  <2>1. chipSleep' = hif_chip_sleep(hif_chip_wake(Power)).sleep
    BY <1>1 DEF DriverCall, SetPower
  <2> QED
    BY <2>1 DEF PowerInv, hif_chip_wake, hif_chip_sleep, hif_chip_sleep_sc, Power
<1>2. CASE op # "pair"
  <2>1. chipSleep' = hif_send(Power).sleep
    BY <1>2 DEF DriverCall, SetPower, Unpaired
  <2> QED
    BY <2>1 DEF PowerInv, hif_send, Power
<1> QED
  BY <1>1, <1>2

\* Wakes and sleeps pair on every path through hif_isr.
LEMMA PowerStep ==
  ASSUME TypeOK, PowerInv, [Next]_vars,
         (CallbackOps \cup AppOps) \cap Unpaired = {}
  PROVE  PowerInv'
<1>0. ret \in {"handler", "isr_end"}
  BY DEF TypeOK, PlacesOK
<1>d. \A op \in CallbackOps \cup AppOps : DriverCall(op) =>
             chipSleep' \in {0, 1} /\ (chipSleep = 0 => chipSleep' = 0) /\ pc' = pc
  BY CallBalanced DEF DriverCall, control
<1> USE DEF context, pin, chip, control, counts, Goto, EintEnable, EintDisable,
            SetPower, NextIs, PowerInv, Between
<1>1. CASE m2m_EintHandler
  BY <1>1 DEF m2m_EintHandler
<1>2. CASE ChipOffers
  BY <1>2 DEF ChipOffers
<1>3. CASE Glitch
  BY <1>3 DEF Glitch
<1>4. CASE BootEintEnable
  BY <1>4 DEF BootEintEnable
<1>5. CASE EnableInterrupts
  BY <1>5 DEF EnableInterrupts
<1>6. CASE hif_init
  BY <1>6 DEF hif_init
<1>7. CASE DriverInitEvent
  BY <1>7 DEF DriverInitEvent, hif_chip_wake, hif_chip_sleep, hif_chip_sleep_sc, Power, hif_send
<1>8. CASE CountMask
  BY <1>8 DEF CountMask
<1>9. CASE CountRead
  BY <1>9 DEF CountRead
<1>10. CASE DecrementMask
  BY <1>10 DEF DecrementMask
<1>11. CASE DecrementStore
  BY <1>11 DEF DecrementStore
<1>12. CASE IsrWake
  BY <1>12 DEF IsrWake, hif_chip_wake, hif_chip_sleep, hif_chip_sleep_sc, Power, hif_send
<1>13. CASE IsrRead
  BY <1>13 DEF IsrRead
<1>14. CASE IsrClear
  BY <1>14 DEF IsrClear
<1>15. CASE IsrReject
  BY <1>15 DEF IsrReject, hif_chip_wake, hif_chip_sleep, hif_chip_sleep_sc, Power, hif_send
<1>16. CASE IsrDispatch
  BY <1>16 DEF IsrDispatch
<1>17. CASE hif_receive
  BY <1>17 DEF hif_receive
<1>18. CASE ReceiveDone
  BY <1>18 DEF ReceiveDone
<1>19. CASE CallbackReturn
  BY <1>19 DEF CallbackReturn
<1>20. CASE HandlerReturn
  BY <1>20 DEF HandlerReturn
<1>21. CASE SetRxDoneFlag
  BY <1>21 DEF SetRxDoneFlag
<1>22. CASE SetRxDoneWrite
  BY <1>22, <1>0 DEF SetRxDoneWrite
<1>23. CASE IsrEnd
  BY <1>23 DEF IsrEnd, hif_chip_wake, hif_chip_sleep, hif_chip_sleep_sc, Power, hif_send
<1>24. CASE AppCall
  BY <1>24, <1>d DEF AppCall
<1>25. CASE CallbackCall
  BY <1>25, <1>d DEF CallbackCall
<1>26. CASE m2m_wifi_deinit
  BY <1>26 DEF m2m_wifi_deinit
<1>27. CASE m2m_wifi_init
  BY <1>27 DEF m2m_wifi_init
<1>28. CASE m2m_wifi_task
  BY <1>28 DEF m2m_wifi_task
<1>29. CASE UNCHANGED vars
  BY <1>29 DEF vars
<1> QED
  BY <1>1, <1>2, <1>3, <1>4, <1>5, <1>6, <1>7, <1>8, <1>9, <1>10, <1>11, <1>12, <1>13, <1>14,
     <1>15, <1>16, <1>17, <1>18, <1>19, <1>20, <1>21, <1>22, <1>23, <1>24, <1>25, <1>26, <1>27, <1>28, <1>29
     DEF Next, Environment, Boot, Service, Application

\* The places where hif_isr and the handlers it calls use the chip.
Serving ==
  {"isr_read", "isr_clear", "isr_header", "handler", "done_flag", "done_write", "isr_end"}

\* With the chip's mailbox in order (no malformed packets) and no calls from
\* callbacks, the wake counter and the wake bits follow hif_isr.
AwakeInv ==
  /\ pc \in Between \cup {"isr_clear", "done_write"} => ~hifRxDone
  /\ pc \in Serving => Awake /\ chipSleep = 1
  /\ pc \notin Serving => chipSleep = 0 /\ (chipMode = "ps" => ~hostWake)

\* A sleep that the last wake's count allows clears the wake bits.
LEMMA LastSleep ==
  ASSUME NEW w, SetPower(hif_chip_sleep([sleep |-> 1, wake |-> w]))
  PROVE  chipSleep' = 0 /\ (chipMode # "no_ps" => ~hostWake')
<1> DEFINE p == [sleep |-> 1, wake |-> w]
           q == hif_chip_sleep_sc(p)
<1>1. q.sleep = 0
  BY DEF hif_chip_sleep_sc
<1>2. DOMAIN q = {"sleep", "wake"}
  BY DEF hif_chip_sleep_sc
<1>3. hif_chip_sleep(p) = [q EXCEPT !.wake = q.wake /\ ~(q.sleep = 0 /\ chipMode # "no_ps")]
  BY DEF hif_chip_sleep
<1> HIDE DEF q
<1>4. hif_chip_sleep(p).sleep = 0
  BY <1>1, <1>2, <1>3
<1>5. hif_chip_sleep(p).wake = (q.wake /\ ~(q.sleep = 0 /\ chipMode # "no_ps"))
  BY <1>2, <1>3
<1>6. chipMode # "no_ps" => ~hif_chip_sleep(p).wake
  BY <1>1, <1>5
<1> QED
  BY <1>4, <1>6 DEF SetPower

\* The first wake counts and, in a power-save mode, sets the wake bits, alone
\* and with the sleep that belongs to it.
LEMMA FirstWake ==
  ASSUME chipSleep = 0, ~hifRxDone
  PROVE  /\ SetPower(hif_chip_wake(Power)) =>
              chipSleep' = 1 /\ (chipMode # "no_ps" => hostWake')
         /\ SetPower(hif_chip_sleep(hif_chip_wake(Power))) =>
              chipSleep' = 0 /\ (chipMode # "no_ps" => ~hostWake')
<1> DEFINE w == hostWake \/ (Power.sleep = 0 /\ chipMode # "no_ps")
<1>1. chipMode # "no_ps" => w
  BY DEF Power
<1>2. hif_chip_wake(Power) = [sleep |-> 1, wake |-> w]
  <2>1. Power.sleep = 0 /\ Power.wake = hostWake
    BY DEF Power
  <2>2. (Power.sleep + 1) % 256 = 1
    BY <2>1
  <2> QED
    BY <2>1, <2>2, Zenon DEF hif_chip_wake
<1> HIDE DEF w
<1>3. hif_chip_wake(Power).sleep = 1 /\ hif_chip_wake(Power).wake = w
  BY <1>2
<1>4. SetPower(hif_chip_wake(Power)) => chipSleep' = 1 /\ (chipMode # "no_ps" => hostWake')
  BY <1>1, <1>3, Zenon DEF SetPower
<1>5. ASSUME SetPower(hif_chip_sleep(hif_chip_wake(Power)))
      PROVE  chipSleep' = 0 /\ (chipMode # "no_ps" => ~hostWake')
  <2>1. SetPower(hif_chip_sleep([sleep |-> 1, wake |-> w]))
    BY <1>2, <1>5, Zenon
  <2> QED
    BY <2>1, LastSleep
<1> QED
  BY <1>4, <1>5

\* Every step keeps them in order.
LEMMA AwakeStep ==
  ASSUME TypeOK, AwakeInv, [Next]_vars,
         Kinds \cap Malformed = {}, CallbackOps = {}, AppOps \cap Unpaired = {}
  PROVE  AwakeInv'
<1>0. ret \in {"handler", "isr_end"} /\ chipMode \in {"no_ps", "ps"} /\ kind \notin Malformed
  BY DEF TypeOK, PlacesOK, Malformed
<1> USE DEF context, pin, chip, control, counts, Goto, EintEnable, EintDisable,
            SetPower, NextIs, AwakeInv, Between, Serving, Awake
<1>1. CASE m2m_EintHandler
  BY <1>1 DEF m2m_EintHandler
<1>2. CASE ChipOffers
  BY <1>2 DEF ChipOffers
<1>3. CASE Glitch
  BY <1>3 DEF Glitch
<1>4. CASE BootEintEnable
  BY <1>4 DEF BootEintEnable
<1>5. CASE EnableInterrupts
  BY <1>5 DEF EnableInterrupts
<1>6. CASE hif_init
  BY <1>6 DEF hif_init
<1>7. CASE DriverInitEvent
  <2>1. chipSleep = 0 /\ ~hifRxDone /\ SetPower(hif_chip_sleep(hif_chip_wake(Power)))
    BY <1>7 DEF DriverInitEvent
  <2>2. chipSleep' = 0 /\ (chipMode # "no_ps" => ~hostWake')
    BY <2>1, FirstWake
  <2> QED
    BY <1>7, <2>2 DEF DriverInitEvent
<1>8. CASE CountMask
  BY <1>8 DEF CountMask
<1>9. CASE CountRead
  BY <1>9 DEF CountRead
<1>10. CASE DecrementMask
  BY <1>10 DEF DecrementMask
<1>11. CASE DecrementStore
  BY <1>11 DEF DecrementStore
<1>12. CASE IsrWake
  <2>1. chipSleep = 0 /\ ~hifRxDone
    BY <1>12 DEF IsrWake
  <2>2. chipSleep' = 1 /\ (chipMode # "no_ps" => hostWake')
    BY <1>12, <2>1, FirstWake DEF IsrWake
  <2> QED
    BY <1>12, <2>2 DEF IsrWake
<1>13. CASE IsrRead
  BY <1>13 DEF IsrRead
<1>14. CASE IsrClear
  BY <1>14 DEF IsrClear
<1>15. CASE IsrReject
  BY <1>15, <1>0 DEF IsrReject
<1>16. CASE IsrDispatch
  BY <1>16 DEF IsrDispatch
<1>17. CASE hif_receive
  BY <1>17 DEF hif_receive
<1>18. CASE ReceiveDone
  BY <1>18 DEF ReceiveDone
<1>19. CASE CallbackReturn
  BY <1>19 DEF CallbackReturn
<1>20. CASE HandlerReturn
  BY <1>20 DEF HandlerReturn
<1>21. CASE SetRxDoneFlag
  BY <1>21 DEF SetRxDoneFlag
<1>22. CASE SetRxDoneWrite
  BY <1>22, <1>0 DEF SetRxDoneWrite
<1>23. CASE IsrEnd
  <2>1. Power = [sleep |-> 1, wake |-> hostWake]
    BY <1>23 DEF IsrEnd, Power
  <2>2. chipSleep' = 0 /\ (chipMode # "no_ps" => ~hostWake')
    BY <1>23, <2>1, LastSleep DEF IsrEnd
  <2> QED
    BY <1>23, <2>2 DEF IsrEnd
<1>24. CASE AppCall
  <2>1. PICK op \in AppOps \ Unpaired : DriverCall(op)
    BY <1>24 DEF AppCall
  <2>2. pc = "app" /\ pc' = "app" /\ hifRxDone' = hifRxDone /\ ~hifRxDone /\ chipSleep = 0
    BY <1>24, <2>1 DEF AppCall, DriverCall
  <2>3. CASE op = "pair"
    <3>1. SetPower(hif_chip_sleep(hif_chip_wake(Power))) /\ chipMode' = chipMode
      BY <2>1, <2>3 DEF DriverCall
    <3>2. chipSleep' = 0 /\ (chipMode # "no_ps" => ~hostWake')
      BY <2>2, <3>1, FirstWake
    <3> QED
      BY <2>2, <3>1, <3>2
  <2>4. CASE op # "pair"
    BY <1>0, <2>1, <2>2, <2>4 DEF DriverCall, hif_send, Power, Unpaired
  <2> QED
    BY <2>3, <2>4
<1>25. CASE CallbackCall
  BY <1>25 DEF CallbackCall
<1>26. CASE m2m_wifi_deinit
  BY <1>26, <1>0 DEF m2m_wifi_deinit, hif_chip_wake, hif_chip_sleep, hif_chip_sleep_sc, Power
<1>27. CASE m2m_wifi_init
  BY <1>27 DEF m2m_wifi_init
<1>28. CASE m2m_wifi_task
  BY <1>28 DEF m2m_wifi_task
<1>29. CASE UNCHANGED vars
  BY <1>29 DEF vars
<1> QED
  BY <1>1, <1>2, <1>3, <1>4, <1>5, <1>6, <1>7, <1>8, <1>9, <1>10, <1>11, <1>12, <1>13, <1>14,
     <1>15, <1>16, <1>17, <1>18, <1>19, <1>20, <1>21, <1>22, <1>23, <1>24, <1>25, <1>26, <1>27, <1>28, <1>29
     DEF Next, Environment, Boot, Service, Application

-----------------------------------------------------------------------------
(* The theorems.                                                           *)

LEMMA MailboxInvariant == Spec => []MailboxInv
<1>1. Init => MailboxInv
  <2> SUFFICES ASSUME Init
               PROVE  /\ PlacesOK /\ CountersOK /\ FlagsOK
                      /\ BootInv /\ PacketInv /\ ScriptInv(Completing)
                      /\ RxDoneTracksPacket
    BY DEF MailboxInv, TypeOK
  <2>1. PlacesOK
    BY DEF Init, PlacesOK, PCs
  <2>2. CountersOK
    BY BoundsAssumption DEF Init, CountersOK
  <2>3. FlagsOK
    BY DEF Init, FlagsOK
  <2>4. BootInv /\ PacketInv /\ ScriptInv(Completing) /\ RxDoneTracksPacket
    BY DEF Init, BootInv, PacketInv, ScriptInv, RxDoneTracksPacket,
           HeldOnlyByMalformed, Between
  <2> QED
    BY <2>1, <2>2, <2>3, <2>4
<1>2. MailboxInv /\ [Next]_vars => MailboxInv'
  BY TypeStep, BootStep, PacketStep, ScriptStep, ScriptSound, RxDoneStep
     DEF MailboxInv
<1> QED
  BY <1>1, <1>2, PTL DEF Spec

\* Whatever packets come and whatever their callbacks call, hifRxDone records
\* exactly that the chip waits for RX done, and only a malformed packet is
\* still held when hif_isr has returned.
THEOREM MailboxSafe == Spec => [](RxDoneTracksPacket /\ HeldOnlyByMalformed)
<1>1. MailboxInv => RxDoneTracksPacket /\ HeldOnlyByMalformed
  BY DEF MailboxInv, PacketInv
<1> QED
  BY <1>1, MailboxInvariant, PTL

\* Receive memory is read and completed only while the chip holds the packet
\* for the driver, if no packet of an Overreading kind comes.
THEOREM OwnPacketRead ==
  ASSUME Kinds \cap Overreading = {}
  PROVE  Spec => []ReadsOwnPacket
<1>1. Init => ScriptInv(Touch)
  BY DEF Init, ScriptInv
<1>2. MailboxInv /\ ScriptInv(Touch) /\ [Next]_vars => ScriptInv(Touch)'
  <2>1. Completing \subseteq Touch
    BY DEF Completing, Touch
  <2>2. \A k \in Kinds \cap DOMAIN Script : Sound(Script[k], Touch)
    BY ScriptSound
  <2> QED
    BY <2>1, <2>2, ScriptStep DEF MailboxInv
<1>3. MailboxInv /\ ScriptInv(Touch) => ReadsOwnPacket
  <2> SUFFICES ASSUME MailboxInv, ScriptInv(Touch),
                      \/ pc = "isr_header"
                      \/ NextIs("part") \/ NextIs("last") \/ NextIs("done")
               PROVE  slot = "taken"
    BY DEF ReadsOwnPacket
  <2>1. CASE pc = "isr_header"
    BY <2>1 DEF MailboxInv, PacketInv
  <2>2. CASE NextIs("part") \/ NextIs("last") \/ NextIs("done")
    BY <2>2, StepSound DEF MailboxInv, NextIs, Touch
  <2> QED
    BY <2>1, <2>2
<1> QED
  BY <1>1, <1>2, <1>3, MailboxInvariant, PTL DEF Spec

\* The mailbox only moves free, offered, taken, free, or is reset with the
\* chip: no packet is released that the driver has not taken.
THEOREM MailboxDisciplined == Spec => MailboxProtocol
<1> DEFINE Move ==
      slot' # slot =>
        \/ slot = "free" /\ slot' = "offered"
        \/ slot = "offered" /\ slot' = "taken"
        \/ slot = "taken" /\ slot' = "free"
        \/ slot' = "free" /\ ~irqOn'
<1>1. MailboxInv /\ [Next]_vars => [Move]_vars
  <2> SUFFICES ASSUME MailboxInv, Next
               PROVE  Move
    BY DEF vars, chip
  <2> USE DEF chip, pin, context, control, counts
  <2>1. CASE Environment
    BY <2>1 DEF Environment, m2m_EintHandler, ChipOffers, Glitch
  <2>2. CASE Boot \/ m2m_wifi_task
    BY <2>2 DEF Boot, BootEintEnable, EnableInterrupts, hif_init,
                DriverInitEvent, m2m_wifi_task
  <2>3. CASE Application
    BY <2>3 DEF Application, AppCall, CallbackCall, DriverCall, m2m_wifi_deinit,
                m2m_wifi_init
  <2>4. CASE IsrClear
    BY <2>4 DEF IsrClear, MailboxInv, PacketInv
  <2>5. CASE SetRxDoneWrite
    BY <2>5 DEF SetRxDoneWrite, MailboxInv, PacketInv
  <2>6. CASE Service /\ ~IsrClear /\ ~SetRxDoneWrite
    BY <2>6 DEF Service, CountMask, CountRead, DecrementMask, DecrementStore,
                IsrWake, IsrRead, IsrReject, IsrDispatch, hif_receive,
                ReceiveDone, CallbackReturn, HandlerReturn, SetRxDoneFlag, IsrEnd
  <2> QED
    BY <2>1, <2>2, <2>3, <2>4, <2>5, <2>6 DEF Next
<1> QED
  BY <1>1, MailboxInvariant, PTL DEF Spec, MailboxProtocol

\* However many edges coalesce in the latch or are counted, a waiting packet
\* has its interrupt on the way, until the counter wraps over it or hif_init
\* erases it: there is no third way to lose one (wf_hif.c:72-78, 456-465).
THEOREM NothingLost == Spec => []NoLostInterrupt
<1>1. Init => NoLostInterrupt
  BY DEF Init, NoLostInterrupt
<1>2. TypeOK /\ NoLostInterrupt /\ [Next]_vars => NoLostInterrupt'
  BY NothingLostStep
<1> QED
  BY <1>1, <1>2, TypeCorrect, PTL DEF Spec

\* No path through hif_isr and no error return leaves the pin masked when the
\* superloop is back in the application.
THEOREM PinUnmasked == Spec => []UnmaskedOutsideService
<1>1. Init => UnmaskedOutsideService
  BY DEF Init, UnmaskedOutsideService
<1>2. UnmaskedOutsideService /\ [Next]_vars => UnmaskedOutsideService'
  BY UnmaskedStep
<1> QED
  BY <1>1, <1>2, PTL DEF Spec

\* The wake counter is zero whenever the superloop is back in the application,
\* if the application makes no Unpaired call.
THEOREM WakesAndSleepsPair ==
  ASSUME (CallbackOps \cup AppOps) \cap Unpaired = {}
  PROVE  Spec => []SleepBalanced
<1>1. Init => PowerInv
  BY DEF Init, PowerInv
<1>2. TypeOK /\ PowerInv /\ [Next]_vars => PowerInv'
  BY PowerStep
<1>3. PowerInv => SleepBalanced
  BY DEF PowerInv, SleepBalanced, Between
<1> QED
  BY <1>1, <1>2, <1>3, TypeCorrect, PTL DEF Spec

\* The wake counter and the wake bits follow hif_isr throughout.
LEMMA AwakeInvariant ==
  ASSUME Kinds \cap Malformed = {}, CallbackOps = {}, AppOps \cap Unpaired = {}
  PROVE  Spec => []AwakeInv
<1>1. Init => AwakeInv
  BY DEF Init, AwakeInv, Serving, Between
<1>2. TypeOK /\ AwakeInv /\ [Next]_vars => AwakeInv'
  BY AwakeStep
<1> QED
  BY <1>1, <1>2, TypeCorrect, PTL DEF Spec

\* If all packets are well-formed, callbacks make no driver call and no call
\* is Unpaired, the chip is awake whenever hif_isr or a handler reads its
\* registers (wf_hif.c:109-126, 190-204).
THEOREM AwakeWhenServing ==
  ASSUME Kinds \cap Malformed = {}, CallbackOps = {}, AppOps \cap Unpaired = {}
  PROVE  Spec => []AwakeDuringService
<1>1. AwakeInv => AwakeDuringService
  BY DEF AwakeInv, AwakeDuringService, Serving
<1> QED
  BY <1>1, AwakeInvariant, PTL

\* Under the same conditions the chip may sleep whenever the driver has
\* nothing to do (wf_hif.c:190-204, 341).
THEOREM AsleepWhenIdle ==
  ASSUME Kinds \cap Malformed = {}, CallbackOps = {}, AppOps \cap Unpaired = {}
  PROVE  Spec => []MaySleepWhenIdle
<1>1. AwakeInv => MaySleepWhenIdle
  BY DEF AwakeInv, MaySleepWhenIdle, Serving
<1> QED
  BY <1>1, AwakeInvariant, PTL

\* No packet but a malformed one is still held when the superloop is back in
\* the application (wf_hif.c:560-568).
THEOREM WellFormedReleased == Spec => []HeldOnlyByMalformed
BY MailboxSafe, PTL
=============================================================================
