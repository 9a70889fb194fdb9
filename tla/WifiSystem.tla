----------------------------- MODULE WifiSystem -----------------------------
(***************************************************************************)
(* The Wi-Fi side of the superloop of src/src/main.c: in every turn one    *)
(* state of the application and then m2m_wifi_task, which starts the chip  *)
(* with the state machines of src/src/wf_wifi.c until the driver is up and *)
(* hands events to the application afterwards.                             *)
(*                                                                         *)
(* Time is counted from the last startTime on and no further than the      *)
(* limits compared with it.  A register read can be given up and is zero   *)
(* then, a register write can be lost (module SpiBus).  The microcontroller*)
(* can restart at any time while the chip stays as it is.                  *)
(***************************************************************************)
EXTENDS WifiApp

CONSTANTS
  FirstDelay, SecondDelay, FinalDelay,  \* 2, 6 and 10 ms
  BootRomTimeout, FirmwareTimeout       \* 100 and 200 ms

Limits == {FirstDelay, SecondDelay, FinalDelay, BootRomTimeout, FirmwareTimeout}

ASSUME LimitsAssumption == Limits \subseteq Nat \ {0}

VARIABLES
  turn,        \* who is next in the superloop
  subState,    \* g_subState, of all three state machines
  inConfig,    \* where in ChipApplyConfig the superloop is, or "no"
  elapsed,     \* since startTime
  chip,        \* held in reset, loading its efuse, in its boot ROM, ...
  waitHost,    \* bit 0 of M2M_WAIT_FOR_HOST_REG
  BOOTROM_REG, NMI_STATE_REG,
  chipId,      \* what GetChipId has cached
  lost         \* history: a write of this start to these registers was given up

chipvars == <<chip, waitHost, BOOTROM_REG, NMI_STATE_REG>>
bootvars == <<subState, inConfig, elapsed, chipId, lost>>
vars == <<app, initState, g_scanInProgress, reported, firmware, turn, chipvars, bootvars>>

ResetStates == {"RESET_START", "FIRST_DELAY", "SECOND_DELAY", "FINAL_DELAY",
                "RESET_COMPLETE"}
BootRomStates == {"BOOT_ROM_START", "WAIT_LOAD", "CHECK_REV", "BOOT_ROM_FAIL"}
FirmwareStates == {"FIRMWARE_START", "START_WAIT", "START_ERROR"}

\* The errors after which start-up goes no further, and those it survives.
Fatal == {"bootrom_load_fail", "chip_rev", "firmware_start"}
Survived == {"invalid_chip_rev", "firmware_info"}

ElapsedCap == CHOOSE m \in {l + 1 : l \in Limits} : \A l \in Limits : l < m

TypeOK ==
  /\ AppTypeOK
  /\ initState \in {"START", "CHIP_RESET", "BOOT_ROM", "FIRMWARE", "COMPLETE"}
  /\ CASE initState = "CHIP_RESET" -> subState \in ResetStates
       [] initState = "BOOT_ROM" -> subState \in BootRomStates
       [] initState = "FIRMWARE" -> subState \in FirmwareStates
       [] OTHER -> subState \in ResetStates \cup BootRomStates \cup FirmwareStates
  /\ inConfig \in {"no", "write", "read"}
  /\ inConfig # "no" =>
       turn = "driver" /\ initState = "BOOT_ROM" /\ subState = "CHECK_REV"
  /\ g_scanInProgress \in BOOLEAN
  /\ reported \subseteq Fatal \cup Survived
  /\ inbox \in Seq(Request) /\ Len(inbox) <= MaxInbox
  /\ mode \in {"dead", "idle", "provisioning", "ap", "station"}
  /\ scanning \in BOOLEAN /\ raised \in Event \cup {"none"}
  /\ turn \in {"app", "driver"}
  /\ elapsed \in 0 .. ElapsedCap
  /\ chip \in {"held", "loading", "rom", "loaded", "starting", "up"}
  /\ waitHost \in BOOLEAN
  /\ BOOTROM_REG \in {"zero", "finish", "start"}
  /\ NMI_STATE_REG \in {"zero", "version", "finish"}
  /\ chipId \in {"none", "supported", "unsupported"}
  /\ lost \in BOOLEAN

Init ==
  /\ AppInit
  /\ initState = "START" /\ subState = "RESET_START" /\ elapsed = 0
  /\ inConfig = "no"
  /\ g_scanInProgress = FALSE /\ reported = {}
  /\ inbox = <<>> /\ mode = "dead" /\ scanning = FALSE
  /\ raised = "none"
  /\ turn = "app"
  /\ chip = "held" /\ waitHost = FALSE
  /\ BOOTROM_REG = "zero" /\ NMI_STATE_REG = "zero"
  /\ chipId = "none" /\ lost = FALSE
-----------------------------------------------------------------------------
(* Registers, pins and time.                                               *)

\* nm_read_reg: the register's value, or zero.
Reads(value) == {value, "zero"}

m2mStub_PinSet_RESET_LOW ==
  /\ chip' = "held" /\ mode' = "dead"
  /\ inbox' = <<>> /\ scanning' = FALSE /\ raised' = "none"
  /\ waitHost' = FALSE /\ BOOTROM_REG' = "zero"
  /\ UNCHANGED NMI_STATE_REG

\* The firmware's state register may survive a reset.
m2mStub_PinSet_RESET_HIGH ==
  /\ chip' = "loading"
  /\ waitHost' \in BOOLEAN /\ UNCHANGED BOOTROM_REG
  /\ NMI_STATE_REG' \in {"zero", NMI_STATE_REG}

\* m2m_get_elapsed_time counts the 1 ms ticks since startTime.
Tick ==
  /\ initState # "COMPLETE" /\ elapsed < ElapsedCap
  /\ elapsed' = elapsed + 1
  /\ UNCHANGED <<app, initState, g_scanInProgress, reported, firmware, turn,
                 chipvars, subState, inConfig, chipId, lost>>

StartTime == elapsed' = 0

\* The boot ROM loads the firmware unless the host is to say so; the firmware
\* runs when the host has started it.
ChipSteps ==
  /\ \/ chip = "loading" /\ chip' = "rom" /\ UNCHANGED <<BOOTROM_REG, NMI_STATE_REG, mode>>
     \/ /\ chip = "rom"
        /\ chip' = "loaded" /\ BOOTROM_REG' = "finish"
        /\ UNCHANGED <<NMI_STATE_REG, mode>>
     \/ /\ chip = "starting"
        /\ chip' = "up" /\ NMI_STATE_REG' = "finish" /\ mode' = "idle"
        /\ UNCHANGED BOOTROM_REG
  /\ UNCHANGED <<app, initState, g_scanInProgress, reported, inbox, scanning,
                 raised, turn, waitHost, bootvars>>
-----------------------------------------------------------------------------
(* The three state machines.  All share g_subState.                        *)

Wait(limit, next) == elapsed >= limit /\ subState' = next /\ StartTime

\* Releasing CE alone changes nothing that the driver sees.
ChipHardwareResetStateMachine ==
  /\ \/ /\ subState = "RESET_START"
        /\ m2mStub_PinSet_RESET_LOW
        /\ subState' = "FIRST_DELAY" /\ StartTime
     \/ /\ subState = "FIRST_DELAY"
        /\ Wait(FirstDelay, "SECOND_DELAY")
        /\ UNCHANGED <<firmware, chipvars>>
     \/ /\ subState = "SECOND_DELAY"
        /\ Wait(SecondDelay, "FINAL_DELAY")
        /\ m2mStub_PinSet_RESET_HIGH
        /\ UNCHANGED firmware
     \/ /\ \/ subState = "FIRST_DELAY" /\ elapsed < FirstDelay
           \/ subState = "SECOND_DELAY" /\ elapsed < SecondDelay
           \/ subState = "FINAL_DELAY" /\ elapsed < FinalDelay
        /\ UNCHANGED <<subState, elapsed, firmware, chipvars>>
  /\ UNCHANGED <<initState, g_scanInProgress, reported>>

\* The bus is set up.  A chip whose identity cannot be read, or is another, is
\* reported, and start-up goes on.
nm_spi_init == UNCHANGED reported \/ GenerateErrorEvent("invalid_chip_rev")

\* Mutant of ChipResetDone: the next machine starts in the state of this one.
ChipResetDone_KeepsState ==
  /\ subState = "FINAL_DELAY" /\ elapsed >= FinalDelay
  /\ g_scanInProgress' = FALSE
  /\ nm_spi_init
  /\ initState' = "BOOT_ROM"
  /\ UNCHANGED <<subState, elapsed, firmware, chipvars>>

ChipResetDone ==
  /\ subState = "FINAL_DELAY" /\ elapsed >= FinalDelay
  /\ g_scanInProgress' = FALSE
  /\ nm_spi_init
  /\ subState' = "BOOT_ROM_START" /\ initState' = "BOOT_ROM"
  /\ UNCHANGED <<elapsed, firmware, chipvars>>

BootRomStart ==
  /\ subState = "BOOT_ROM_START"
  /\ \/ /\ chip # "loading"
        /\ \E host \in {waitHost, FALSE} :
             IF host THEN subState' = "CHECK_REV" /\ UNCHANGED elapsed
                     ELSE subState' = "WAIT_LOAD" /\ StartTime
     \/ UNCHANGED <<subState, elapsed>>
  /\ UNCHANGED reported

\* The register is looked at before the time.
BootRomWaitLoad ==
  /\ subState = "WAIT_LOAD"
  /\ \E reg \in Reads(BOOTROM_REG) :
       IF reg = "finish" THEN subState' = "CHECK_REV" /\ UNCHANGED reported
       ELSE IF elapsed > BootRomTimeout
         THEN subState' = "BOOT_ROM_FAIL" /\ GenerateErrorEvent("bootrom_load_fail")
         ELSE UNCHANGED <<subState, reported>>
  /\ UNCHANGED elapsed

\* GetChipId asks the chip once and keeps what it gets.
GetChipId ==
  chipId' \in (IF chipId = "none" THEN {"supported", "unsupported"} ELSE {chipId})

\* Mutant of VersionWritten: the state register is left as it is.
VersionWritten_Not(gone) == NMI_STATE_REG

\* The state register gets the driver's version, unless the write is lost.
VersionWritten(gone) == IF gone THEN NMI_STATE_REG ELSE "version"

\* A chip that is supported is configured in the same turn.
BootRomCheckRev ==
  /\ subState = "CHECK_REV" /\ inConfig = "no"
  /\ GetChipId
  /\ \E versionLost \in BOOLEAN :
       /\ lost' = (lost \/ versionLost)
       /\ NMI_STATE_REG' = VersionWritten(versionLost)
  /\ IF chipId' = "supported"
       THEN inConfig' = "write" /\ UNCHANGED <<subState, reported>>
       ELSE /\ subState' = "BOOT_ROM_FAIL" /\ GenerateErrorEvent("chip_rev")
            /\ UNCHANGED inConfig
  /\ UNCHANGED <<initState, chip, BOOTROM_REG>>

\* A start that is lost starts nothing.
BootRomDone ==
  /\ subState' = "FIRMWARE_START" /\ initState' = "FIRMWARE"
  /\ \E startLost \in BOOLEAN :
       /\ lost' = (lost \/ startLost)
       /\ IF startLost THEN UNCHANGED <<chip, BOOTROM_REG>>
          ELSE BOOTROM_REG' = "start"
               /\ chip' = IF chip \in {"rom", "loaded"} THEN "starting" ELSE chip

\* do { write; read } until the configuration is read back, which it never is
\* when no access arrives: the superloop is held, the chip and the time go on.
ChipApplyConfig ==
  /\ \/ inConfig = "write" /\ inConfig' = "read"
        /\ UNCHANGED <<initState, subState, chip, BOOTROM_REG, lost>>
     \/ inConfig = "read" /\ inConfig' = "write"
        /\ UNCHANGED <<initState, subState, chip, BOOTROM_REG, lost>>
     \/ inConfig = "read" /\ inConfig' = "no" /\ BootRomDone
  /\ UNCHANGED <<reported, chipId, NMI_STATE_REG>>

BootRomStateMachine ==
  \/ /\ \/ BootRomStart \/ BootRomWaitLoad
        \/ subState = "BOOT_ROM_FAIL" /\ UNCHANGED <<subState, elapsed, reported>>
     /\ UNCHANGED <<initState, g_scanInProgress, chipvars, inConfig, chipId, lost>>
  \/ /\ BootRomCheckRev \/ ChipApplyConfig
     /\ UNCHANGED <<elapsed, waitHost, g_scanInProgress>>

FirmwareTimedOut ==
  /\ elapsed > FirmwareTimeout
  /\ subState' = "START_ERROR" /\ GenerateErrorEvent("firmware_start")

\* Mutant of FirmwareStart: the time starts with the machine before.
FirmwareStart_Restarts ==
  /\ subState \in {"FIRMWARE_START", "START_WAIT"}
  /\ subState' = "START_WAIT" /\ StartTime
  /\ UNCHANGED reported

FirmwareStart ==
  /\ subState = "FIRMWARE_START"
  /\ subState' = "START_WAIT" /\ StartTime
  /\ UNCHANGED reported

\* The states in which the firmware is not up yet.
FirmwareStartStateMachine ==
  /\ \/ FirmwareStart
     \/ /\ subState = "START_WAIT"
        /\ \E reg \in Reads(NMI_STATE_REG) : reg # "finish"
        /\ \/ FirmwareTimedOut
           \/ elapsed <= FirmwareTimeout /\ UNCHANGED <<subState, reported>>
        /\ UNCHANGED elapsed
     \/ subState = "START_ERROR" /\ UNCHANGED <<subState, elapsed, reported>>
  /\ UNCHANGED <<initState, g_scanInProgress, chipvars>>

\* hif_init and SocketInit belong to Hif and Sockets.  The firmware is asked
\* for its version when start-up is complete already: what is wrong with it is
\* reported, and nothing else.
FirmwareUp ==
  /\ subState = "START_WAIT"
  /\ NMI_STATE_REG = "finish"
  /\ \E writeLost \in BOOLEAN :
       /\ lost' = (lost \/ writeLost)
       /\ NMI_STATE_REG' = IF writeLost THEN NMI_STATE_REG ELSE "zero"
  /\ initState' = "COMPLETE"
  /\ m2m_wifi_handle_events("driver_init") /\ nm_get_firmware_info
  /\ elapsed' = 0
  /\ UNCHANGED <<subState, inConfig, chipId, chip, waitHost, BOOTROM_REG, g_scanInProgress>>

InitStart ==
  /\ initState' = "CHIP_RESET" /\ subState' = "RESET_START"
  /\ reported' = {} /\ lost' = FALSE
  /\ UNCHANGED <<elapsed, inConfig, chipId, firmware, chipvars, app, g_scanInProgress>>

InitStateMachine ==
  \/ initState = "START" /\ InitStart
  \/ /\ initState = "CHIP_RESET"
     /\ ChipHardwareResetStateMachine \/ ChipResetDone
     /\ UNCHANGED <<app, inConfig, chipId, lost>>
  \/ /\ initState = "BOOT_ROM" /\ BootRomStateMachine
     /\ UNCHANGED <<app, firmware>>
  \/ /\ initState = "FIRMWARE"
     /\ \/ FirmwareStartStateMachine /\ UNCHANGED <<app, inConfig, chipId, lost>>
        \/ FirmwareUp
     /\ UNCHANGED <<inbox, mode, scanning, raised>>
-----------------------------------------------------------------------------
(* The superloop.                                                          *)

\* hif_isr hands the event over; a scan's end takes the flag down first.
WifiInternalEventHandler ==
  /\ raised # "none" /\ raised' = "none"
  /\ g_scanInProgress' = (g_scanInProgress /\ raised # "scan_done")
  /\ m2m_wifi_handle_events(raised)
  /\ UNCHANGED <<initState, reported, mode, scanning, chipvars, bootvars>>

hif_handle_isr ==
  \/ WifiInternalEventHandler
  \/ raised = "none" /\ UNCHANGED <<app, initState, g_scanInProgress, reported,
                                    firmware, chipvars, bootvars>>

\* Before start-up is complete no interrupt is counted (module Hif).  The turn
\* goes on while ChipApplyConfig does, and to hif_handle_isr when start-up has
\* become complete.
m2m_wifi_task ==
  /\ turn = "driver"
  /\ \/ /\ initState # "COMPLETE" /\ InitStateMachine
        /\ turn' = IF inConfig' # "no" \/ initState' = "COMPLETE" THEN "driver" ELSE "app"
     \/ initState = "COMPLETE" /\ hif_handle_isr /\ turn' = "app"

App ==
  /\ turn = "app" /\ turn' = "driver"
  /\ wifi_state
  /\ UNCHANGED <<mode, scanning, raised, chipvars, bootvars>>

Loop == App \/ m2m_wifi_task

\* Requests a command may make from console_run, before the states.
ApiCall ==
  /\ turn = "app" /\ initState = "COMPLETE"
  /\ \/ \E channel \in {0, 1, M2M_WIFI_CH_ALL} :
          \/ m2m_wifi_request_scan(channel)
          \/ m2m_wifi_request_scan_passive(channel)
          \/ \E names \in {1, 5} : m2m_wifi_req_hidden_ssid_scan(channel, names)
     \/ /\ \/ \E slots \in {0, 2} :
                m2m_wifi_set_scan_options(
                  [slots |-> slots, slotTime |-> 60, probes |-> 2, rssi |-> -99])
           \/ \E region \in {"europe", "asia"} : m2m_wifi_set_scan_region(region)
           \/ m2m_wifi_disconnect
           \/ \E channel \in {1, M2M_WIFI_CH_ALL} :
                m2m_wifi_enable_ap([OwnAp EXCEPT !.channel = channel])
           \/ m2m_wifi_disable_ap
           \/ m2m_wifi_set_address \/ m2m_wifi_set_power \/ m2m_wifi_get
           \/ m2m_wifi_req_curr_rssi \/ m2m_wifi_req_scan_result
           \/ \E manual \in BOOLEAN : m2m_wifi_request_sleep(manual)
           \/ \E length \in {5, 47, 48} : m2m_wifi_set_device_name(length)
           \/ \E length \in {251, 252} : m2m_wifi_set_cust_InfoElement(length)
        /\ UNCHANGED g_scanInProgress
  /\ UNCHANGED <<app, initState, reported, mode, scanning, raised, turn, chipvars, bootvars>>

Firmware ==
  /\ FirmwareTakes \/ FirmwareRaises
  /\ UNCHANGED <<app, initState, g_scanInProgress, reported, turn, chipvars, bootvars>>

\* The microcontroller forgets everything; the chip goes on.
McuRestart ==
  /\ wifi_tasks' = "initialize" /\ eventFlags' = {}
  /\ connected' = FALSE /\ tcp_client_socket' = FALSE /\ addressed' = FALSE
  /\ initState' = "START" /\ subState' = "RESET_START" /\ elapsed' = 0
  /\ inConfig' = "no"
  /\ g_scanInProgress' = FALSE /\ reported' = {}
  /\ turn' = "app" /\ chipId' = "none" /\ lost' = FALSE
  /\ UNCHANGED <<firmware, chipvars>>

Next == Loop \/ Tick \/ ChipSteps \/ Firmware \/ ApiCall \/ McuRestart

Spec == Init /\ [][Next]_vars

\* The superloop turns and the tick interrupt ticks; the chip owes nothing.
FairSpec == Spec /\ WF_vars(Loop) /\ WF_vars(Tick)
-----------------------------------------------------------------------------
(* Properties.                                                             *)

\* Start-up stands still in the error state of a machine.
Failed ==
  \/ initState = "BOOT_ROM" /\ subState = "BOOT_ROM_FAIL"
  \/ initState = "FIRMWARE" /\ subState = "START_ERROR"

\* Start-up has one outcome, and a true one.  When it is complete the firmware
\* this start has loaded is running, unless a register write was given up; a
\* firmware that comes up after the time-out, or the state register of the one
\* before, changes nothing.  It stands still after exactly one Fatal error, and
\* whoever heard none is told no untruth: there is no such error in any other
\* state.  The errors of the bus and of the versions say nothing about it
\* (wf_wifi.c:132-365).
OneTrueOutcome ==
  /\ initState = "COMPLETE" => chip = "up" \/ lost
  /\ Failed => \E error \in Fatal : reported \cap Fatal = {error}
  /\ ~ Failed => reported \cap Fatal = {}

\* The application connects to its server only when an address was assigned
\* after the latest credentials had come, whatever events come in between
\* (wifi.c:265-271, 643-690).
ServerAfterAddress ==
  [][wifi_tasks' = "connectToServer" /\ wifi_tasks # "connectToServer" =>
       connected /\ addressed]_vars

\* Once the chip's boot ROM is waited for, start-up ends in success or in a
\* reported failure, whatever the chip does, unless the microcontroller
\* restarts, or unless the chip never gives its configuration back: then the
\* superloop stays in ChipApplyConfig for ever, with nothing reported
\* (wf_wifi.c:253-365, wf_asic.c:64-79).
StartUpEnds ==
  (initState = "FIRMWARE" \/ (initState = "BOOT_ROM" /\ subState # "BOOT_ROM_START"))
    ~> (initState \in {"COMPLETE", "START"} \/ Failed \/ [](inConfig # "no"))

=============================================================================
