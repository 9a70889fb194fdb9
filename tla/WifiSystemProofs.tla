-------------------------- MODULE WifiSystemProofs --------------------------
(***************************************************************************)
(* Proofs about WifiSystem, for every value of the delays, the time-outs   *)
(* and the size of the inbox, and for any credentials and access point:    *)
(* its types, that start-up has one outcome and a true one, and that the   *)
(* application connects to its server only with an address.  At the end,   *)
(* what the driver's functions of times, versions and addresses compute.   *)
(***************************************************************************)
EXTENDS WifiSystem, DriverUtils, TLAPS

(* The parts of TypeOK, one for every group of variables.                  *)

InboxOK == inbox \in Seq(Request) /\ Len(inbox) <= MaxInbox

SubStateOK ==
  /\ subState \in ResetStates \cup BootRomStates \cup FirmwareStates
  /\ initState = "CHIP_RESET" => subState \in ResetStates
  /\ initState = "BOOT_ROM" => subState \in BootRomStates
  /\ initState = "FIRMWARE" => subState \in FirmwareStates

StartOK ==
  /\ initState \in {"START", "CHIP_RESET", "BOOT_ROM", "FIRMWARE", "COMPLETE"}
  /\ SubStateOK
  /\ elapsed \in 0 .. ElapsedCap
  /\ inConfig \in {"no", "write", "read"}
  /\ chipId \in {"none", "supported", "unsupported"}
  /\ lost \in BOOLEAN

ConfigOK ==
  inConfig # "no" => turn = "driver" /\ initState = "BOOT_ROM" /\ subState = "CHECK_REV"

FirmwareOK ==
  /\ mode \in {"dead", "idle", "provisioning", "ap", "station"}
  /\ scanning \in BOOLEAN /\ raised \in Event \cup {"none"}

ChipOK ==
  /\ chip \in {"held", "loading", "rom", "loaded", "starting", "up"}
  /\ waitHost \in BOOLEAN
  /\ BOOTROM_REG \in {"zero", "finish", "start"}
  /\ NMI_STATE_REG \in {"zero", "version", "finish"}

LoopOK ==
  /\ g_scanInProgress \in BOOLEAN
  /\ reported \subseteq Fatal \cup Survived
  /\ turn \in {"app", "driver"}

\* TypeOK (WifiSystem.tla) is the conjunction of its parts.
LEMMA TypeParts ==
  TypeOK <=> AppTypeOK /\ InboxOK /\ StartOK /\ ConfigOK /\ FirmwareOK /\ ChipOK /\ LoopOK
BY DEF TypeOK, InboxOK, StartOK, SubStateOK, ConfigOK, FirmwareOK, ChipOK, LoopOK,
       ResetStates, BootRomStates, FirmwareStates
-----------------------------------------------------------------------------
(* Lemmas about requests and handlers.                                     *)

\* The bound of the elapsed time is a natural number: five limits have a largest.
LEMMA CapIsNatural == ElapsedCap \in Nat
<1> DEFINE Above(m) == \A l \in Limits : l < m
<1>1. \A a, b \in Nat : \E m \in {a, b} : a <= m /\ b <= m
  BY SMT
<1>2. FirstDelay \in Nat /\ SecondDelay \in Nat /\ FinalDelay \in Nat
      /\ BootRomTimeout \in Nat /\ FirmwareTimeout \in Nat
  BY LimitsAssumption DEF Limits
<1>3. PICK m \in {FirstDelay, SecondDelay} : FirstDelay <= m /\ SecondDelay <= m
  BY <1>1, <1>2
<1>4. PICK n \in {m, FinalDelay} : m <= n /\ FinalDelay <= n
  BY <1>1, <1>2, <1>3
<1>5. PICK o \in {n, BootRomTimeout} : n <= o /\ BootRomTimeout <= o
  BY <1>1, <1>2, <1>3, <1>4
<1>6. PICK p \in {o, FirmwareTimeout} : o <= p /\ FirmwareTimeout <= p
  BY <1>1, <1>2, <1>3, <1>4, <1>5
<1>7. p \in Limits
  BY <1>3, <1>4, <1>5, <1>6 DEF Limits
<1>8. Above(p + 1)
  BY <1>2, <1>3, <1>4, <1>5, <1>6 DEF Limits
<1>9. \E m2 \in {l + 1 : l \in Limits} : Above(m2)
  BY <1>7, <1>8
<1>10. ElapsedCap \in {l + 1 : l \in Limits}
  BY <1>9 DEF ElapsedCap
<1> QED
  BY <1>10, LimitsAssumption

\* No requests are an inbox ...
LEMMA EmptyInbox == inbox = <<>> => InboxOK
BY InboxAssumption DEF InboxOK

\* ... after a reset of the chip, too (m2mStub_PinSet_RESET_LOW) ...
LEMMA EmptiedInbox == inbox' = <<>> => InboxOK'
BY InboxAssumption DEF InboxOK

\* ... and what the firmware leaves of one is one.
LEMMA TakenInbox == InboxOK /\ inbox # <<>> /\ inbox' = Tail(inbox) => InboxOK'
BY InboxAssumption DEF InboxOK

\* hif_send adds a request, if it fits, or loses it.
LEMMA SendKeepsInbox ==
  ASSUME InboxOK, NEW request \in Request, hif_send(request)
  PROVE  InboxOK'
<1>1. CASE inbox' = inbox
  BY <1>1 DEF InboxOK
<1>2. CASE Len(inbox) < MaxInbox /\ inbox' = Append(inbox, request)
  BY <1>2, InboxAssumption DEF InboxOK
<1> QED
  BY <1>1, <1>2 DEF hif_send

\* A request refused changes nothing.
LEMMA RefusedRequests == InboxOK /\ Refused => InboxOK'
BY DEF Refused, InboxOK

\* A scan asked for keeps the types, whether it is refused or not.
LEMMA Scans ==
  ASSUME InboxOK, g_scanInProgress \in BOOLEAN, NEW ok, Scan(ok)
  PROVE  InboxOK' /\ g_scanInProgress' \in BOOLEAN
BY SendKeepsInbox, RefusedRequests DEF Scan, Request

\* The application's event handler, called by the driver, keeps the types.
LEMMA HandlerTypes ==
  ASSUME InboxOK, AppTypeOK, NEW event, m2m_wifi_handle_events(event)
  PROVE  InboxOK' /\ AppTypeOK'
<1>0. wifi_tasks' = wifi_tasks /\ tcp_client_socket' = tcp_client_socket
  BY DEF m2m_wifi_handle_events
<1>1. CASE ProvisionInfo(Offered) \/ ProvisionInfo(BadKey)
  BY <1>0, <1>1, SendKeepsInbox, RefusedRequests
     DEF ProvisionInfo, m2m_wifi_connect, ConnectInternal, Request, AppTypeOK
<1>2. CASE ProvisionFailed
  BY <1>0, <1>2, SendKeepsInbox
     DEF ProvisionFailed, m2m_wifi_stop_provision_mode, Request, AppTypeOK
<1>3. CASE AddressAssigned
  BY <1>0, <1>3 DEF AddressAssigned, Raise, AppTypeOK, InboxOK, Flag
<1>4. CASE Raise("driverInitComplete") /\ UNCHANGED <<connected, addressed, inbox>>
  BY <1>0, <1>4 DEF Raise, AppTypeOK, InboxOK, Flag
<1>5. CASE UNCHANGED <<eventFlags, connected, addressed, inbox>>
  BY <1>0, <1>5 DEF AppTypeOK, InboxOK
<1> QED
  BY <1>1, <1>2, <1>3, <1>4, <1>5 DEF m2m_wifi_handle_events

\* Every state of the application keeps the types.
LEMMA StateTypes ==
  ASSUME TypeOK, wifi_state, g_scanInProgress \in BOOLEAN
  PROVE  InboxOK' /\ AppTypeOK' /\ g_scanInProgress' \in BOOLEAN
         /\ initState' \in {initState, "START"}
         /\ reported' \in {reported, reported \cup {"firmware_info"}}
<1> USE DEF AppTypeOK, States, Flag, Request, InboxOK
<1>0. AppTypeOK /\ InboxOK
  BY DEF TypeOK
<1>1. CASE wifi_state_initialize
  BY <1>0, <1>1 DEF wifi_state_initialize, clearWifiEventFlags, m2m_wifi_init
<1>2. CASE wifi_state_waitForBoot
  BY <1>0, <1>2 DEF wifi_state_waitForBoot, nm_get_firmware_info, GenerateErrorEvent
<1>3. CASE wifi_state_connectToWifi
  BY <1>0, <1>3, SendKeepsInbox, RefusedRequests
     DEF wifi_state_connectToWifi, m2m_wifi_start_provision_mode
<1>4. CASE wifi_state_waitToConnect
  <2>1. InboxOK'
    BY <1>0, <1>4, SendKeepsInbox DEF wifi_state_waitToConnect, m2m_wifi_enable_sntp
  <2> QED
    BY <1>0, <1>4, <2>1 DEF wifi_state_waitToConnect
<1>5. CASE wifi_state_connectToServer
  BY <1>0, <1>5 DEF wifi_state_connectToServer, app
<1> QED
  BY <1>1, <1>2, <1>3, <1>4, <1>5 DEF wifi_state

\* So does every request of a command.
LEMMA ApiTypes ==
  ASSUME InboxOK, g_scanInProgress \in BOOLEAN, ApiCall
  PROVE  InboxOK' /\ g_scanInProgress' \in BOOLEAN
<1>1. ASSUME NEW channel, NEW names,
             m2m_wifi_request_scan(channel) \/ m2m_wifi_request_scan_passive(channel)
               \/ m2m_wifi_req_hidden_ssid_scan(channel, names)
      PROVE  InboxOK' /\ g_scanInProgress' \in BOOLEAN
  BY <1>1, Scans, RefusedRequests DEF m2m_wifi_request_scan, m2m_wifi_request_scan_passive,
     m2m_wifi_req_hidden_ssid_scan
<1>2. ASSUME \E request \in Request : hif_send(request) \/ Refused
      PROVE  InboxOK'
  BY <1>2, SendKeepsInbox, RefusedRequests
<1>3. CASE \E channel \in {0, 1, M2M_WIFI_CH_ALL} :
          \/ m2m_wifi_request_scan(channel)
          \/ m2m_wifi_request_scan_passive(channel)
          \/ \E names \in {1, 5} : m2m_wifi_req_hidden_ssid_scan(channel, names)
  BY <1>1, <1>3
<1>4. CASE (\E request \in Request : hif_send(request) \/ Refused) /\ UNCHANGED g_scanInProgress
  BY <1>2, <1>4
<1> QED
  BY <1>3, <1>4 DEF ApiCall, Request, m2m_wifi_set_scan_options, m2m_wifi_set_scan_region,
     m2m_wifi_disconnect, m2m_wifi_enable_ap, m2m_wifi_disable_ap, m2m_wifi_set_address,
     m2m_wifi_set_power, m2m_wifi_get, m2m_wifi_req_curr_rssi, m2m_wifi_req_scan_result,
     m2m_wifi_request_sleep, m2m_wifi_set_device_name, m2m_wifi_set_cust_InfoElement

-----------------------------------------------------------------------------
(* Theorems.                                                               *)

\* The variables keep their types; above all, the one substate all three
\* machines share is always one of the machine that runs, although a machine
\* that ends sets it for the next (wf_wifi.c:156-365).
THEOREM TypeCorrect == Spec => []TypeOK
<1>1. Init => TypeOK
  <2> SUFFICES ASSUME Init PROVE TypeOK
    OBVIOUS
  <2>1. AppTypeOK
    BY DEF Init, AppInit, AppTypeOK, States, Flag
  <2>2. InboxOK
    BY EmptyInbox DEF Init
  <2>3. FirmwareOK /\ ChipOK /\ LoopOK
    BY DEF Init, FirmwareOK, ChipOK, LoopOK
  <2>4. SubStateOK
    BY DEF Init, SubStateOK, ResetStates
  <2>5. elapsed \in 0 .. ElapsedCap
    BY CapIsNatural DEF Init
  <2>6. StartOK
    BY <2>4, <2>5 DEF Init, StartOK
  <2>7. ConfigOK
    BY DEF Init, ConfigOK
  <2> QED
    BY <2>1, <2>2, <2>3, <2>6, <2>7, TypeParts
<1>2. TypeOK /\ [Next]_vars => TypeOK'
  <2> SUFFICES ASSUME TypeOK, [Next]_vars PROVE TypeOK'
    OBVIOUS
  <2>0. AppTypeOK /\ InboxOK /\ StartOK /\ ConfigOK /\ FirmwareOK /\ ChipOK /\ LoopOK
    BY TypeParts
  <2>01. SUFFICES AppTypeOK' /\ InboxOK' /\ StartOK' /\ ConfigOK' /\ FirmwareOK' /\ ChipOK' /\ LoopOK'
    BY <2>01 DEF TypeOK, InboxOK, StartOK, SubStateOK, ConfigOK, FirmwareOK, ChipOK, LoopOK,
       ResetStates, BootRomStates, FirmwareStates
  <2>1. CASE App
    <3>1. InboxOK' /\ AppTypeOK' /\ g_scanInProgress' \in BOOLEAN
          /\ initState' \in {initState, "START"}
          /\ reported' \in {reported, reported \cup {"firmware_info"}}
      BY <2>0, <2>1, StateTypes DEF App, LoopOK
    <3>2. FirmwareOK' /\ ChipOK'
      BY <2>0, <2>1 DEF App, FirmwareOK, ChipOK, chipvars
    <3>3. StartOK'
      BY <2>0, <2>1, <3>1 DEF App, StartOK, SubStateOK, bootvars
    <3>4. LoopOK'
      BY <2>0, <2>1, <3>1 DEF App, LoopOK, Survived
    <3>5. ConfigOK'
      BY <2>0, <2>1 DEF App, ConfigOK, bootvars
    <3> QED
      BY <3>1, <3>2, <3>3, <3>4, <3>5
  <2>2. CASE m2m_wifi_task
    <3>1. CASE initState # "COMPLETE" /\ InitStateMachine
      <4>1. CASE initState = "START" /\ InitStart
        <5>1. AppTypeOK' /\ InboxOK' /\ FirmwareOK' /\ ChipOK'
          BY <2>0, <4>1 DEF InitStart, AppTypeOK, InboxOK, FirmwareOK, ChipOK, app, firmware,
             chipvars
        <5>2. LoopOK'
          BY <2>0, <2>2, <4>1 DEF m2m_wifi_task, InitStart, LoopOK
        <5>3. StartOK' /\ ConfigOK'
          BY <2>0, <4>1 DEF InitStart, StartOK, ConfigOK, SubStateOK, ResetStates
        <5> QED
          BY <5>1, <5>2, <5>3
      <4>2. CASE initState = "CHIP_RESET" /\ (ChipHardwareResetStateMachine \/ ChipResetDone)
                 /\ UNCHANGED <<app, inConfig, chipId, lost>>
        <5>1. AppTypeOK' /\ LoopOK'
          BY <2>0, <2>2, <4>2 DEF m2m_wifi_task, ChipHardwareResetStateMachine, ChipResetDone,
             nm_spi_init, GenerateErrorEvent, Survived, AppTypeOK, LoopOK, app
        <5>2. UNCHANGED firmware \/ m2mStub_PinSet_RESET_LOW
          BY <4>2 DEF ChipHardwareResetStateMachine, ChipResetDone
        <5>3. InboxOK'
          BY <2>0, <5>2, EmptiedInbox DEF m2mStub_PinSet_RESET_LOW, InboxOK, firmware
        <5>4. FirmwareOK'
          BY <2>0, <5>2 DEF m2mStub_PinSet_RESET_LOW, FirmwareOK, firmware
        <5>5. ChipOK'
          BY <2>0, <2>2, <4>2 DEF ChipHardwareResetStateMachine, ChipResetDone, ChipOK, chipvars,
             m2mStub_PinSet_RESET_LOW, m2mStub_PinSet_RESET_HIGH
        <5>6. StartOK'
          BY <2>0, <2>2, <4>2, CapIsNatural DEF ChipHardwareResetStateMachine, ChipResetDone,
             StartOK, SubStateOK, ResetStates, BootRomStates, Wait, StartTime
        <5>7. ConfigOK'
          BY <2>0, <4>2 DEF ConfigOK
        <5> QED
          BY <5>1, <5>3, <5>4, <5>5, <5>6, <5>7
      <4>3. CASE initState = "BOOT_ROM" /\ BootRomStateMachine /\ UNCHANGED <<app, firmware>>
        <5>1. AppTypeOK' /\ InboxOK' /\ FirmwareOK'
          BY <2>0, <4>3 DEF AppTypeOK, InboxOK, FirmwareOK, app, firmware
        <5>2. LoopOK'
          BY <2>0, <2>2, <4>3 DEF m2m_wifi_task, LoopOK, BootRomStateMachine, BootRomStart,
             BootRomWaitLoad, BootRomCheckRev, ChipApplyConfig, BootRomDone,
             GenerateErrorEvent, Fatal
        <5>3. ChipOK'
          BY <2>0, <4>3 DEF ChipOK, BootRomStateMachine, BootRomCheckRev, ChipApplyConfig,
             BootRomDone, chipvars, VersionWritten
        <5>4. StartOK'
          BY <2>0, <4>3, CapIsNatural DEF StartOK, SubStateOK, BootRomStateMachine, BootRomStart,
             BootRomWaitLoad, BootRomCheckRev, ChipApplyConfig, BootRomDone, BootRomStates,
             FirmwareStates, StartTime, GetChipId
        <5>5. ConfigOK'
          BY <2>0, <3>1, <2>2, <4>3 DEF m2m_wifi_task, ConfigOK, BootRomStateMachine,
             BootRomStart, BootRomWaitLoad, BootRomCheckRev, ChipApplyConfig
        <5> QED
          BY <5>1, <5>2, <5>3, <5>4, <5>5
      <4>4. CASE initState = "FIRMWARE" /\ FirmwareStartStateMachine
                 /\ UNCHANGED <<app, inConfig, chipId, lost, inbox, mode, scanning, raised>>
        <5>1. AppTypeOK' /\ InboxOK' /\ FirmwareOK'
          BY <2>0, <4>4 DEF AppTypeOK, InboxOK, FirmwareOK, app, firmware
        <5>2. LoopOK' /\ ChipOK'
          BY <2>0, <2>2, <4>4 DEF m2m_wifi_task, LoopOK, ChipOK, FirmwareStartStateMachine,
             FirmwareStart, FirmwareTimedOut, GenerateErrorEvent, Fatal, chipvars
        <5>3. ConfigOK'
          BY <2>0, <4>4 DEF ConfigOK
        <5>4. StartOK'
          BY <2>0, <4>4, CapIsNatural DEF StartOK, SubStateOK, FirmwareStartStateMachine,
             FirmwareStart, FirmwareTimedOut, FirmwareStates, StartTime
        <5> QED
          BY <5>1, <5>2, <5>3, <5>4
      <4>5. CASE initState = "FIRMWARE" /\ FirmwareUp /\ UNCHANGED <<inbox, mode, scanning, raised>>
        <5>1. AppTypeOK' /\ InboxOK'
          BY <2>0, <4>5, HandlerTypes DEF FirmwareUp
        <5>2. LoopOK' /\ FirmwareOK' /\ ChipOK'
          BY <2>0, <2>2, <4>5 DEF m2m_wifi_task, LoopOK, FirmwareOK, ChipOK, FirmwareUp,
             nm_get_firmware_info, GenerateErrorEvent, Survived
        <5>3. StartOK' /\ ConfigOK'
          BY <2>0, <4>5, CapIsNatural DEF StartOK, ConfigOK, SubStateOK, FirmwareUp
        <5> QED
          BY <5>1, <5>2, <5>3
      <4> QED
        BY <3>1, <4>1, <4>2, <4>3, <4>4, <4>5 DEF InitStateMachine
    <3>2. CASE initState = "COMPLETE" /\ WifiInternalEventHandler /\ turn' = "app"
      <4>1. AppTypeOK' /\ InboxOK'
        BY <2>0, <3>2, HandlerTypes DEF WifiInternalEventHandler
      <4>2. LoopOK' /\ FirmwareOK'
        BY <2>0, <3>2 DEF LoopOK, FirmwareOK, WifiInternalEventHandler
      <4>3. StartOK' /\ ConfigOK' /\ ChipOK'
        BY <2>0, <3>2 DEF StartOK, ConfigOK, SubStateOK, ChipOK, WifiInternalEventHandler,
           chipvars, bootvars
      <4> QED
        BY <4>1, <4>2, <4>3
    <3>3. CASE /\ initState = "COMPLETE" /\ turn' = "app"
               /\ UNCHANGED <<app, initState, g_scanInProgress, reported,
                              firmware, chipvars, bootvars>>
      BY <2>0, <3>3 DEF app, firmware, chipvars, bootvars, AppTypeOK,
         InboxOK, StartOK, ConfigOK, SubStateOK, FirmwareOK, ChipOK, LoopOK
    <3> QED
      BY <2>2, <3>1, <3>2, <3>3 DEF m2m_wifi_task, hif_handle_isr
  <2>3. CASE Tick
    BY <2>0, <2>3, CapIsNatural DEF Tick, app, firmware, chipvars, AppTypeOK,
       InboxOK, StartOK, ConfigOK, SubStateOK, FirmwareOK, ChipOK, LoopOK
  <2>4. CASE ChipSteps
    BY <2>0, <2>4 DEF ChipSteps, app, bootvars, AppTypeOK,
       InboxOK, StartOK, ConfigOK, SubStateOK, FirmwareOK, ChipOK, LoopOK
  <2>5. CASE Firmware
    <3>1. AppTypeOK' /\ StartOK' /\ ConfigOK' /\ ChipOK' /\ LoopOK'
      BY <2>0, <2>5 DEF Firmware, app, chipvars, bootvars, AppTypeOK, StartOK, ConfigOK,
         SubStateOK, ChipOK, LoopOK
    <3>2. CASE FirmwareTakes
      <4>1. mode' \in {"dead", "idle", "provisioning", "ap", "station"}
        BY <2>0, <3>2 DEF FirmwareTakes, FirmwareOK
      <4>2. scanning' \in BOOLEAN
        BY <3>2, Zenon DEF FirmwareTakes
      <4>3. raised' = raised
        BY <3>2 DEF FirmwareTakes
      <4>4. InboxOK'
        BY <2>0, <3>2, TakenInbox DEF FirmwareTakes
      <4> QED
        BY <2>0, <3>1, <4>1, <4>2, <4>3, <4>4 DEF FirmwareOK
    <3>3. CASE FirmwareRaises
      <4>1. FirmwareOK' /\ InboxOK'
        BY <2>0, <3>3 DEF FirmwareRaises, FirmwareOK, InboxOK, Event
      <4> QED
        BY <3>1, <4>1
    <3> QED
      BY <2>5, <3>2, <3>3 DEF Firmware
  <2>6. CASE ApiCall
    <3>1. InboxOK' /\ g_scanInProgress' \in BOOLEAN
      BY <2>0, <2>6, ApiTypes DEF LoopOK
    <3> QED
      BY <2>0, <2>6, <3>1 DEF ApiCall, app, chipvars, bootvars, AppTypeOK, StartOK,
         ConfigOK, SubStateOK, FirmwareOK, ChipOK, LoopOK
  <2>7. CASE McuRestart
    <3>1. AppTypeOK'
      BY <2>7 DEF McuRestart, AppTypeOK, States, Flag
    <3>5. LoopOK' /\ ConfigOK'
      BY <2>7 DEF McuRestart, LoopOK, ConfigOK
    <3>2. InboxOK' /\ FirmwareOK' /\ ChipOK'
      BY <2>0, <2>7 DEF McuRestart, InboxOK, FirmwareOK, ChipOK, firmware, chipvars
    <3>3. SubStateOK'
      BY <2>7 DEF McuRestart, SubStateOK, ResetStates
    <3>6. (elapsed \in 0 .. ElapsedCap)'
      BY <2>7, CapIsNatural DEF McuRestart
    <3>4. StartOK'
      BY <2>7, <3>3, <3>6 DEF McuRestart, StartOK
    <3> QED
      BY <3>1, <3>2, <3>4, <3>5
  <2>8. CASE UNCHANGED vars
    BY <2>0, <2>8 DEF vars, app, firmware, chipvars, bootvars, AppTypeOK,
       InboxOK, StartOK, ConfigOK, SubStateOK, FirmwareOK, ChipOK, LoopOK
  <2> QED
    BY <2>1, <2>2, <2>3, <2>4, <2>5, <2>6, <2>7, <2>8 DEF Next, Loop
<1> QED
  BY <1>1, <1>2, PTL DEF Spec

\* Nothing has been started before the application starts the driver ...
NotBegun == wifi_tasks = "initialize" => turn = "app" /\ initState = "START"

\* ... a start ends at most once ...
OneOutcome ==
  /\ Failed => \E error \in Fatal : reported \cap Fatal = {error}
  /\ ~ Failed => reported \cap Fatal = {}

\* ... and the word in the state register is the firmware's of this start: the
\* version written before the chip is configured and the firmware is started
\* took away an older one.
FinishIsTrue ==
  inConfig # "no" \/ initState = "FIRMWARE" =>
    (NMI_STATE_REG = "finish" => chip = "up" \/ lost)

OutcomeInv ==
  /\ NotBegun /\ OneOutcome /\ FinishIsTrue
  /\ initState = "COMPLETE" => chip = "up" \/ lost

\* The errors start-up survives leave the others as they are.
LEMMA SurvivedErrors ==
  ASSUME NEW error \in Survived, UNCHANGED reported \/ GenerateErrorEvent(error)
  PROVE  reported' \cap Fatal = reported \cap Fatal
BY DEF GenerateErrorEvent, Fatal, Survived

\* A start that has not failed fails with the error it reports.
LEMMA FatalError ==
  ASSUME OneOutcome, ~ Failed, NEW error \in Fatal, GenerateErrorEvent(error), Failed'
  PROVE  OneOutcome'
<1>1. reported' \cap Fatal = {error}
  BY DEF OneOutcome, GenerateErrorEvent
<1> QED
  BY <1>1 DEF OneOutcome

\* Nothing else changes the outcome as long as start-up stays as it is.
LEMMA SameOutcome ==
  ASSUME OneOutcome, reported' \cap Fatal = reported \cap Fatal, Failed' <=> Failed
  PROVE  OneOutcome'
BY DEF OneOutcome

\* The steps outside the three machines leave start-up where it is, or begin it.
LEMMA OutcomeElsewhere ==
  ASSUME OutcomeInv, UNCHANGED <<initState, subState, inConfig, chip, NMI_STATE_REG, lost>>,
         wifi_tasks' = "initialize" => wifi_tasks = "initialize" /\ turn' = turn,
         reported' \cap Fatal = reported \cap Fatal
  PROVE  OutcomeInv'
<1>1. OneOutcome'
  BY SameOutcome DEF OutcomeInv, Failed
<1> QED
  BY <1>1 DEF OutcomeInv, NotBegun, FinishIsTrue

\* Every step keeps all of it; the interesting ones are the check of the chip's
\* identity, which writes the version, the end of ChipApplyConfig, and the
\* firmware's coming up at any time after its start.
LEMMA OutcomeStep == TypeOK /\ OutcomeInv /\ [Next]_vars => OutcomeInv'
<1> SUFFICES ASSUME TypeOK, OutcomeInv, [Next]_vars PROVE OutcomeInv'
  OBVIOUS
<1>0. AppTypeOK /\ InboxOK /\ StartOK /\ ConfigOK /\ FirmwareOK /\ ChipOK /\ LoopOK
  BY TypeParts
<1>1. CASE App
  <2>1. UNCHANGED <<subState, inConfig, chip, NMI_STATE_REG, lost>> /\ turn = "app"
    BY <1>1 DEF App, chipvars, bootvars
  <2>2. reported' \cap Fatal = reported \cap Fatal
    BY <1>0, <1>1, StateTypes DEF App, LoopOK, Fatal
  <2>3. wifi_tasks' # "initialize"
    BY <1>1 DEF App, wifi_state, wifi_state_initialize, wifi_state_waitForBoot,
       wifi_state_connectToWifi, wifi_state_waitToConnect, wifi_state_connectToServer, app
  <2>4. initState' = initState
    BY <1>1, <2>1 DEF App, wifi_state, wifi_state_initialize, wifi_state_waitForBoot,
       wifi_state_connectToWifi, wifi_state_waitToConnect, wifi_state_connectToServer,
       m2m_wifi_init, OutcomeInv, NotBegun
  <2> QED
    BY <2>1, <2>2, <2>3, <2>4, OutcomeElsewhere
<1>2. CASE turn = "driver" /\ initState # "COMPLETE" /\ InitStateMachine
  <2>0. wifi_tasks' = wifi_tasks /\ wifi_tasks # "initialize"
    BY <1>2 DEF InitStateMachine, InitStart, FirmwareUp, m2m_wifi_handle_events, app,
       OutcomeInv, NotBegun
  <2> SUFFICES OneOutcome' /\ FinishIsTrue' /\ (initState = "COMPLETE" => chip = "up" \/ lost)'
    BY <2>0 DEF OutcomeInv, NotBegun
  <2>1. CASE initState = "START" /\ InitStart
    BY <1>0, <2>1 DEF InitStart, OneOutcome, Failed, FinishIsTrue, ConfigOK
  <2>2. CASE initState = "CHIP_RESET" /\ (ChipHardwareResetStateMachine \/ ChipResetDone)
             /\ UNCHANGED <<app, inConfig, chipId, lost>>
    <3>1. reported' \cap Fatal = reported \cap Fatal
      BY <2>2, SurvivedErrors DEF ChipHardwareResetStateMachine, ChipResetDone, nm_spi_init,
         Survived
    <3>2. ~ Failed /\ ~ Failed' /\ initState' \in {"CHIP_RESET", "BOOT_ROM"} /\ inConfig' = "no"
      BY <1>0, <2>2 DEF ChipHardwareResetStateMachine, ChipResetDone, Failed, ConfigOK
    <3> QED
      BY <3>1, <3>2, SameOutcome DEF OutcomeInv, FinishIsTrue
  <2>3. CASE initState = "BOOT_ROM" /\ BootRomStateMachine
    <3>1. CASE /\ BootRomStart \/ BootRomWaitLoad
                    \/ (subState = "BOOT_ROM_FAIL" /\ UNCHANGED <<subState, elapsed, reported>>)
               /\ UNCHANGED <<initState, g_scanInProgress, chipvars, inConfig, chipId, lost>>
      <4>1. FinishIsTrue' /\ initState' = "BOOT_ROM"
        BY <2>3, <3>1 DEF FinishIsTrue, OutcomeInv, chipvars
      <4>2. CASE BootRomWaitLoad /\ subState' = "BOOT_ROM_FAIL"
        <5>1. GenerateErrorEvent("bootrom_load_fail") /\ ~ Failed /\ Failed'
          BY <2>3, <4>1, <4>2 DEF BootRomWaitLoad, Failed
        <5> QED
          BY <4>1, <5>1, FatalError DEF OutcomeInv, Fatal
      <4>3. CASE ~ (BootRomWaitLoad /\ subState' = "BOOT_ROM_FAIL")
        <5>1. reported' = reported /\ (Failed' <=> Failed)
          BY <2>3, <3>1, <4>1, <4>3 DEF BootRomStart, BootRomWaitLoad, Failed
        <5> QED
          BY <4>1, <5>1, SameOutcome DEF OutcomeInv
      <4> QED
        BY <4>2, <4>3
    <3>2. CASE BootRomCheckRev
      <4>1. NMI_STATE_REG' = "version" \/ lost'
        BY <3>2, Zenon DEF BootRomCheckRev, VersionWritten
      <4>2. FinishIsTrue' /\ initState' = "BOOT_ROM" /\ ~ Failed
        BY <2>3, <3>2, <4>1 DEF BootRomCheckRev, FinishIsTrue, Failed
      <4>3. CASE UNCHANGED <<subState, reported>>
        BY <2>3, <4>2, <4>3, SameOutcome DEF OutcomeInv, Failed
      <4>4. CASE subState' = "BOOT_ROM_FAIL" /\ GenerateErrorEvent("chip_rev")
        BY <4>2, <4>4, FatalError DEF OutcomeInv, Failed, Fatal
      <4> QED
        BY <3>2, <4>3, <4>4 DEF BootRomCheckRev
    <3>3. CASE ChipApplyConfig
      <4>1. /\ reported' = reported /\ NMI_STATE_REG' = NMI_STATE_REG
            /\ inConfig # "no" /\ subState = "CHECK_REV"
            /\ chip = "up" => chip' = "up"
            /\ \/ UNCHANGED <<initState, subState>>
               \/ initState' = "FIRMWARE" /\ subState' = "FIRMWARE_START"
        BY <1>0, <3>3 DEF ChipApplyConfig, BootRomDone, ConfigOK
      <4>2. lost => lost'
        BY <3>3, Zenon DEF ChipApplyConfig, BootRomDone
      <4>3. ~ Failed /\ ~ Failed'
        BY <2>3, <4>1 DEF Failed
      <4> QED
        BY <2>3, <4>1, <4>2, <4>3, SameOutcome DEF OutcomeInv, FinishIsTrue
    <3> QED
      BY <2>3, <3>1, <3>2, <3>3 DEF BootRomStateMachine
  <2>4. CASE /\ initState = "FIRMWARE" /\ FirmwareStartStateMachine
             /\ UNCHANGED <<app, inConfig, chipId, lost>>
    <3>1. FinishIsTrue' /\ initState' = "FIRMWARE"
      BY <2>4 DEF FirmwareStartStateMachine, FinishIsTrue, OutcomeInv, chipvars
    <3>2. CASE FirmwareTimedOut /\ subState = "START_WAIT"
      BY <2>4, <3>1, <3>2, FatalError DEF FirmwareTimedOut, OutcomeInv, Failed, Fatal
    <3>3. CASE ~ (FirmwareTimedOut /\ subState = "START_WAIT")
      <4>1. reported' = reported /\ (Failed' <=> Failed)
        BY <2>4, <3>1, <3>3 DEF FirmwareStartStateMachine, FirmwareStart, Failed
      <4> QED
        BY <3>1, <4>1, SameOutcome DEF OutcomeInv
    <3> QED
      BY <3>2, <3>3
  <2>5. CASE initState = "FIRMWARE" /\ FirmwareUp
    <3>1. reported' \cap Fatal = reported \cap Fatal
      BY <2>5, SurvivedErrors DEF FirmwareUp, nm_get_firmware_info, Survived
    <3>2. ~ Failed /\ ~ Failed' /\ initState' = "COMPLETE" /\ inConfig' = "no"
      BY <1>0, <2>5 DEF FirmwareUp, Failed, ConfigOK
    <3>3. chip' = "up" \/ lost'
      BY <2>5 DEF FirmwareUp, FinishIsTrue, OutcomeInv
    <3> QED
      BY <3>1, <3>2, <3>3, SameOutcome DEF OutcomeInv, FinishIsTrue
  <2> QED
    BY <1>2, <2>1, <2>2, <2>3, <2>4, <2>5 DEF InitStateMachine
<1>3. CASE turn = "driver" /\ initState = "COMPLETE" /\ hif_handle_isr
  <2>1. /\ UNCHANGED <<initState, subState, inConfig, chip, NMI_STATE_REG, lost, reported>>
        /\ wifi_tasks' = wifi_tasks
    BY <1>3 DEF hif_handle_isr, WifiInternalEventHandler, m2m_wifi_handle_events, app,
       chipvars, bootvars
  <2>2. wifi_tasks # "initialize"
    BY <1>3 DEF OutcomeInv, NotBegun
  <2> QED
    BY <2>1, <2>2, OutcomeElsewhere
<1>4. CASE Tick
  BY <1>4, OutcomeElsewhere DEF Tick, app, chipvars
<1>5. CASE ChipSteps
  <2>1. UNCHANGED <<initState, subState, inConfig, lost, reported, wifi_tasks, turn>>
    BY <1>5 DEF ChipSteps, app, bootvars
  <2>2. OneOutcome'
    BY <2>1, SameOutcome DEF OutcomeInv, Failed
  <2>3. \/ NMI_STATE_REG' = NMI_STATE_REG /\ chip # "up" /\ chip' # "up"
        \/ chip' = "up"
    BY <1>5 DEF ChipSteps
  <2> QED
    BY <2>1, <2>2, <2>3 DEF OutcomeInv, NotBegun, FinishIsTrue
<1>6. CASE Firmware
  BY <1>6, OutcomeElsewhere DEF Firmware, app, chipvars, bootvars
<1>7. CASE ApiCall
  BY <1>7, OutcomeElsewhere DEF ApiCall, app, chipvars, bootvars
<1>8. CASE McuRestart
  BY <1>8 DEF McuRestart, OutcomeInv, NotBegun, OneOutcome, Failed, FinishIsTrue
<1>9. CASE UNCHANGED vars
  BY <1>9, OutcomeElsewhere DEF vars, app, chipvars, bootvars
<1> QED
  BY <1>1, <1>2, <1>3, <1>4, <1>5, <1>6, <1>7, <1>8, <1>9 DEF Next, Loop, m2m_wifi_task

\* Start-up has one outcome, and a true one: complete, it has run the firmware
\* it loaded, unless a register write was given up; standing still, it has
\* raised exactly one of the errors that stop it, and in no other state has it
\* raised any (wf_wifi.c:132-365, wf_asic.c:38-80).
THEOREM OutcomeIsTrue == Spec => []OneTrueOutcome
<1>1. Init => OutcomeInv
  BY DEF Init, AppInit, OutcomeInv, NotBegun, OneOutcome, Failed, FinishIsTrue
<1>2. OutcomeInv => OneTrueOutcome
  BY DEF OutcomeInv, OneOutcome, OneTrueOutcome
<1> QED
  BY <1>1, <1>2, OutcomeStep, TypeCorrect, PTL DEF Spec

\* An address the waiting state could use was assigned after the credentials.
AddressOfNow == connected /\ "ipAddressAssigned" \in eventFlags => addressed

\* The handler gives up the address with the credentials that replace the old.
LEMMA HandlerKeepsAddress ==
  ASSUME NEW event, m2m_wifi_handle_events(event), AddressOfNow
  PROVE  AddressOfNow' /\ wifi_tasks' = wifi_tasks
BY DEF m2m_wifi_handle_events, ProvisionInfo, ProvisionFailed, AddressAssigned, Raise, AddressOfNow

\* Every step keeps that, and the one that leaves for the server relies on it.
LEMMA AddressStep ==
  AddressOfNow /\ [Next]_vars =>
    /\ AddressOfNow'
    /\ wifi_tasks' = "connectToServer" /\ wifi_tasks # "connectToServer" => connected /\ addressed
<1> SUFFICES ASSUME AddressOfNow, [Next]_vars
    PROVE /\ AddressOfNow'
          /\ wifi_tasks' = "connectToServer" /\ wifi_tasks # "connectToServer"
               => connected /\ addressed
  OBVIOUS
<1>1. CASE App
  <2>1. CASE wifi_state_initialize
    BY <2>1 DEF wifi_state_initialize, AddressOfNow
  <2>2. CASE wifi_state_waitForBoot
    BY <2>2 DEF wifi_state_waitForBoot, AddressOfNow
  <2>3. CASE wifi_state_connectToWifi
    BY <2>3 DEF wifi_state_connectToWifi, AddressOfNow
  <2>4. CASE wifi_state_waitToConnect
    BY <2>4 DEF wifi_state_waitToConnect, AddressOfNow
  <2>5. CASE wifi_state_connectToServer
    BY <2>5 DEF wifi_state_connectToServer, AddressOfNow, app
  <2> QED
    BY <1>1, <2>1, <2>2, <2>3, <2>4, <2>5 DEF App, wifi_state
<1>2. CASE FirmwareUp \/ WifiInternalEventHandler
  BY <1>2, HandlerKeepsAddress DEF FirmwareUp, WifiInternalEventHandler
<1>3. CASE UNCHANGED app
  BY <1>3 DEF app, AddressOfNow
<1>4. CASE McuRestart
  BY <1>4 DEF McuRestart, AddressOfNow
<1>5. CASE m2m_wifi_task
  BY <1>2, <1>3, <1>5 DEF m2m_wifi_task, InitStateMachine, InitStart, hif_handle_isr
<1> QED
  BY <1>1, <1>3, <1>4, <1>5 DEF Next, Loop, Tick, ChipSteps, Firmware, ApiCall, vars

\* The application connects to its server only when an address was assigned
\* after the latest credentials had come (wifi.c:265-271, 643-690).
THEOREM ServerOnlyAfterAddress == Spec => ServerAfterAddress
<1>1. Init => AddressOfNow
  BY DEF Init, AppInit, AddressOfNow
<1> QED
  BY <1>1, AddressStep, PTL DEF Spec, ServerAfterAddress
-----------------------------------------------------------------------------
(* The driver's functions without state (DriverUtils), for every size of   *)
(* the millisecond counter, every version and every address.               *)

\* A remainder below the divisor, and one divisor beyond it.
LEMMA WrapIs ==
  ASSUME NEW M \in Nat \ {0}, NEW a \in Nat
  PROVE  /\ a < M => Wrap(M, a) = a
         /\ M <= a /\ a < M + M => Wrap(M, a) = a - M
<1>1. ASSUME a < M PROVE a % M = a
  BY <1>1
<1>2. ASSUME M <= a, a < M + M PROVE a % M = a - M
  <2> DEFINE q == a \div M
             r == a % M
  <2>1. q \in Int /\ r \in 0 .. M - 1 /\ a = M * q + r
    OBVIOUS
  <2> HIDE DEF q, r
  <2>2. q = 1
    <3>1. CASE q <= 0
      <4>1. M * q <= 0
        BY <2>1, <3>1
      <4> QED
        BY <1>2, <2>1, <4>1
    <3>2. CASE q >= 2
      <4>1. M * q >= M + M
        BY <2>1, <3>2
      <4> QED
        BY <1>2, <2>1, <4>1
    <3> QED
      BY <2>1, <3>1, <3>2
  <2>3. r = a - M
    BY <2>1, <2>2
  <2> QED
    BY <2>3 DEF r
<1> QED
  BY <1>1, <1>2 DEF Wrap

\* The time since a start that the counter has wrapped after is two short, and
\* right after the wrap it is the greatest number there is, so that every wait
\* is over at once (wf_utils.c:83-95).
THEOREM ElapsedTimeShort ==
  ASSUME NEW M \in Nat \ {0, 1}, NEW b \in 0 .. M - 1, NEW passed \in 0 .. M - 1
  PROVE  m2m_get_elapsed_time(M, b, Wrap(M, b + passed)) =
           IF b + passed < M THEN passed
           ELSE IF passed = 1 THEN M - 1
           ELSE passed - 2
<1>1. CASE b + passed < M
  <2>1. Wrap(M, b + passed) = b + passed
    BY <1>1, WrapIs
  <2> QED
    BY <1>1, <2>1 DEF m2m_get_elapsed_time
<1>2. CASE b + passed >= M /\ b = M - 1
  <2>1. Wrap(M, b + passed) = passed - 1 /\ Wrap(M, b + 1) = 0 /\ passed >= 1
    BY <1>2, WrapIs
  <2>2. m2m_get_elapsed_time(M, b, passed - 1) = Wrap(M, (M - 1) - 0 + (passed - 1))
    BY <1>2, <2>1 DEF m2m_get_elapsed_time
  <2>3. CASE passed = 1
    <3>1. Wrap(M, M - 1) = M - 1
      BY WrapIs
    <3> QED
      BY <1>2, <2>1, <2>2, <2>3, <3>1
  <2>4. CASE passed # 1
    <3>1. Wrap(M, M + passed - 2) = passed - 2
      BY <2>1, <2>4, WrapIs
    <3> QED
      BY <1>2, <2>1, <2>2, <2>4, <3>1
  <2> QED
    BY <2>3, <2>4
<1>3. CASE b + passed >= M /\ b < M - 1
  <2>1. Wrap(M, b + passed) = b + passed - M /\ Wrap(M, b + 1) = b + 1 /\ passed >= 2
    BY <1>3, WrapIs
  <2>2. m2m_get_elapsed_time(M, b, b + passed - M) = Wrap(M, passed - 2)
    BY <1>3, <2>1 DEF m2m_get_elapsed_time
  <2>3. Wrap(M, passed - 2) = passed - 2
    BY <2>1, WrapIs
  <2> QED
    BY <1>3, <2>1, <2>2, <2>3
<1> QED
  BY <1>1, <1>2, <1>3

\* DelayMs waits two milliseconds when it could wait one less, not at all when
\* its end wraps, and for ever when its end is the counter's last value
\* (wf_utils.c:21-30).
THEOREM DelayOfEveryEnd ==
  ASSUME NEW M \in Nat \ {0, 1}, NEW b \in 0 .. M - 1, NEW ms \in 0 .. M - 2
  PROVE  /\ b + ms + 1 < M - 1 => DelayMs(M, b, ms) = {ms + 2}
         /\ b + ms + 1 = M - 1 => DelayMs(M, b, ms) = {}
         /\ b + ms + 1 >= M => DelayMs(M, b, ms) = {0}
<1> DEFINE end == Wrap(M, b + ms + 1)
           Over(n) == Wrap(M, b + n) > end
           Waits == {n \in 0 .. M - 1 : Over(n) /\ \A k \in 0 .. n - 1 : ~ Over(k)}
<1>0. \A n \in 0 .. M - 1 :
        /\ b + n < M => Wrap(M, b + n) = b + n
        /\ b + n >= M => Wrap(M, b + n) = b + n - M
  BY WrapIs
<1>1. end = IF b + ms + 1 < M THEN b + ms + 1 ELSE b + ms + 1 - M
  BY WrapIs
<1>2. DelayMs(M, b, ms) = Waits
  <2>1. \A n \in 0 .. M - 1 : Wrap(M, b + n) \in Int
    BY <1>0
  <2>2. \A n \in 0 .. M - 1 : ~ Over(n) <=> Wrap(M, b + n) <= end
    <3>1. end \in Int
      BY <1>1
    <3> HIDE DEF end
    <3> QED
      BY <2>1, <3>1
  <2>3. \A n \in 0 .. M - 1 : \A k \in 0 .. n - 1 : k \in 0 .. M - 1
    OBVIOUS
  <2>4. DelayMs(M, b, ms) = {n \in 0 .. M - 1 : /\ Wrap(M, b + n) > end
                                  /\ \A k \in 0 .. n - 1 : Wrap(M, b + k) <= end}
    BY DEF DelayMs
  <2> HIDE DEF end
  <2> QED
    BY <2>2, <2>3, <2>4
<1> HIDE DEF end
<1>3. ASSUME b + ms + 1 < M - 1 PROVE Waits = {ms + 2}
  <2>1. \A n \in 0 .. ms + 1 : ~ Over(n)
    BY <1>0, <1>1, <1>3
  <2>2. Over(ms + 2) /\ ms + 2 \in 0 .. M - 1
    BY <1>0, <1>1, <1>3
  <2> HIDE DEF Over
  <2>3. \A n \in Waits : n = ms + 2
    BY <2>1, <2>2
  <2>4. ms + 2 \in Waits
    BY <2>1, <2>2
  <2> QED
    BY <2>3, <2>4
<1>4. ASSUME b + ms + 1 = M - 1 PROVE Waits = {}
  <2>1. \A n \in 0 .. M - 1 : ~ Over(n)
    BY <1>0, <1>1, <1>4
  <2> HIDE DEF Over
  <2> QED
    BY <2>1
<1>5. ASSUME b + ms + 1 >= M PROVE Waits = {0}
  <2>1. Over(0)
    BY <1>0, <1>1, <1>5
  <2> HIDE DEF Over
  <2> QED
    BY <2>1
<1> QED
  BY <1>2, <1>3, <1>4, <1>5

\* A version whose parts fit their fields.
Version == (0 .. 255) \X (0 .. 15) \X (0 .. 15)

\* A version keeps its parts in its number.
LEMMA VersionNumber ==
  ASSUME NEW v \in Version
  PROVE  /\ v[1] \in 0 .. 255 /\ v[2] \in 0 .. 15 /\ v[3] \in 0 .. 15
         /\ v = <<v[1], v[2], v[3]>>
         /\ MAKE_VERSION(v) = v[1] * 256 + v[2] * 16 + v[3]
         /\ MAKE_VERSION(v) \in Nat
<1>1. v[1] \in 0 .. 255 /\ v[2] \in 0 .. 15 /\ v[3] \in 0 .. 15 /\ v = <<v[1], v[2], v[3]>>
  BY DEF Version
<1>2. v[1] % 256 = v[1] /\ v[2] % 16 = v[2] /\ v[3] % 16 = v[3]
  BY <1>1
<1>3. MAKE_VERSION(v) = v[1] * 256 + v[2] * 16 + v[3]
  BY <1>2 DEF MAKE_VERSION
<1>4. \A a, b, c \in Nat : a * 256 + b * 16 + c \in Nat
  OBVIOUS
<1>5. v[1] \in Nat /\ v[2] \in Nat /\ v[3] \in Nat
  BY <1>1
<1>6. v[1] * 256 + v[2] * 16 + v[3] \in Nat
  BY <1>4, <1>5, Zenon
<1> QED
  BY <1>1, <1>3, <1>6

\* The numbers of two versions are in the order of their parts.
LEMMA VersionsOrdered ==
  ASSUME NEW v \in Version, NEW w \in Version
  PROVE  /\ MAKE_VERSION(v) <= MAKE_VERSION(w) <=> NotAfter(v, w)
         /\ MAKE_VERSION(v) = 0 <=> v = <<0, 0, 0>>
<1>1. /\ MAKE_VERSION(v) = v[1] * 256 + v[2] * 16 + v[3]
      /\ MAKE_VERSION(w) = w[1] * 256 + w[2] * 16 + w[3]
      /\ v = <<v[1], v[2], v[3]>>
  BY VersionNumber
<1>2. /\ v[1] \in 0 .. 255 /\ v[2] \in 0 .. 15 /\ v[3] \in 0 .. 15
      /\ w[1] \in 0 .. 255 /\ w[2] \in 0 .. 15 /\ w[3] \in 0 .. 15
  BY VersionNumber
<1> DEFINE a == v[1]
           b == v[2]
           c == v[3]
           d == w[1]
           e == w[2]
           f == w[3]
<1>3. NotAfter(v, w) <=> a < d \/ (a = d /\ (b < e \/ (b = e /\ c <= f)))
  BY DEF NotAfter
<1>4. v = <<0, 0, 0>> <=> a = 0 /\ b = 0 /\ c = 0
  BY <1>1
<1>5. MAKE_VERSION(v) = a * 256 + b * 16 + c /\ MAKE_VERSION(w) = d * 256 + e * 16 + f
  BY <1>1
<1>6. a \in 0 .. 255 /\ b \in 0 .. 15 /\ c \in 0 .. 15 /\ d \in 0 .. 255 /\ e \in 0 .. 15 /\ f \in 0 .. 15
  BY <1>2
<1> HIDE DEF a, b, c, d, e, f
<1>7. /\ a * 256 + b * 16 + c <= d * 256 + e * 16 + f <=>
           a < d \/ (a = d /\ (b < e \/ (b = e /\ c <= f)))
      /\ a * 256 + b * 16 + c = 0 <=> a = 0 /\ b = 0 /\ c = 0
  BY <1>6
<1> QED
  BY <1>3, <1>4, <1>5, <1>7

\* For every pair of versions found in the chip: a firmware is accepted when
\* neither is the empty one, the firmware is not older than the driver and
\* asks for no newer one, part by part (wf_wifi.c:494-567).
THEOREM VersionsCompared ==
  ASSUME NEW found \in Version, NEW minDriver \in Version
  PROVE  (nm_get_firmware_full_info(found, minDriver) = "accepted") <=>
           /\ found # <<0, 0, 0>> /\ minDriver # <<0, 0, 0>>
           /\ NotAfter(minDriver, DriverVersion) /\ NotAfter(DriverVersion, found)
<1> DEFINE F == MAKE_VERSION(found)
           D == MAKE_VERSION(minDriver)
           O == MAKE_VERSION(DriverVersion)
<1>1. DriverVersion \in Version
  BY DEF DriverVersion, Version
<1>2. F \in Nat /\ D \in Nat /\ O \in Nat
  BY <1>1, VersionNumber
<1>3. (nm_get_firmware_full_info(found, minDriver) = "accepted") <=>
        ~ (F = 0 \/ D = 0) /\ ~ (O < D) /\ ~ (O > F)
  BY DEF nm_get_firmware_full_info
<1>4. (D <= O <=> NotAfter(minDriver, DriverVersion)) /\ (O <= F <=> NotAfter(DriverVersion, found))
  BY <1>1, VersionsOrdered
<1>5. (F = 0 <=> found = <<0, 0, 0>>) /\ (D = 0 <=> minDriver = <<0, 0, 0>>)
  BY VersionsOrdered
<1> HIDE DEF F, D, O
<1>6. (~ (O < D) <=> D <= O) /\ (~ (O > F) <=> O <= F)
  BY <1>2
<1> QED
  BY <1>3, <1>4, <1>5, <1>6, Zenon

\* An address is accepted when it has four numbers whose low bytes are not
\* zero, and one of four numbers of 1 to 255 is stored as it was read
\* (wf_utils.c:43-78).
THEOREM AddressesStored ==
  ASSUME NEW tokens \in Seq(Nat)
  PROVE  /\ inet_pton4(tokens).ret <=>
              Len(tokens) = 4 /\ \A i \in 1 .. 4 : tokens[i] % 256 # 0
         /\ Len(tokens) = 4 /\ (\A i \in 1 .. 4 : tokens[i] \in 1 .. 255) =>
              inet_ntop4(inet_pton4(tokens).dst) = tokens
<1> DEFINE bad == {i \in 1 .. Len(tokens) : i > 4 \/ tokens[i] % 256 = 0}
           kept == {j \in 1 .. Len(tokens) : j <= 4 /\ \A b \in bad : j <= b}
<1>1. /\ inet_pton4(tokens).ret = (bad = {} /\ Len(tokens) = 4)
      /\ inet_pton4(tokens).dst = [i \in kept |-> tokens[i] % 256]
  BY DEF inet_pton4
<1>2. ASSUME Len(tokens) = 4 PROVE bad = {} <=> \A i \in 1 .. 4 : tokens[i] % 256 # 0
  BY <1>2
<1>3. ASSUME Len(tokens) = 4, \A i \in 1 .. 4 : tokens[i] \in 1 .. 255
      PROVE  inet_pton4(tokens).dst = tokens
  <2>0. \A n \in 1 .. 255 : n % 256 = n /\ n # 0
    OBVIOUS
  <2>1. \A i \in 1 .. 4 : tokens[i] % 256 = tokens[i] /\ tokens[i] # 0
    BY <1>3, <2>0
  <2>2. bad = {}
    BY <1>3, <2>1
  <2>3. kept = 1 .. 4
    <3> HIDE DEF bad
    <3> QED
      BY <1>3, <2>2
  <2>4. tokens = [i \in 1 .. 4 |-> tokens[i]]
    BY <1>3
  <2> HIDE DEF bad, kept
  <2> QED
    BY <1>1, <2>1, <2>3, <2>4
<1> HIDE DEF bad, kept
<1> QED
  BY <1>1, <1>2, <1>3 DEF inet_ntop4
=============================================================================
