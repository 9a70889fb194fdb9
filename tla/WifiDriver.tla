----------------------------- MODULE WifiDriver -----------------------------
(***************************************************************************)
(* The requests of src/src/wf_wifi.c and the firmware that answers them.   *)
(* A request is checked, handed to hif_send, which may fail without the    *)
(* driver looking at it, and waits in the firmware's inbox.  Module Hif    *)
(* models how requests and events travel.                                  *)
(*                                                                         *)
(* Names and keys are known by their lengths, of which only the limits of  *)
(* the checks matter.                                                      *)
(***************************************************************************)
EXTENDS Integers, Sequences

CONSTANT MaxInbox   \* bound: requests the firmware has not taken yet

ASSUME InboxAssumption == MaxInbox \in Nat \ {0}

VARIABLES
  initState,         \* g_initState
  g_scanInProgress,
  reported,          \* the errors start-up has reported to the application
  inbox,             \* requests on their way to the firmware
  mode,              \* what the firmware is doing
  scanning,          \* ... and beside it
  raised             \* the event waiting in the mailbox, or "none"

firmware == <<inbox, mode, scanning, raised>>

Event == {"connection_changed", "sys_time", "address", "scan_done",
          "info_good", "info_bad_key", "info_failed"}
Request == {"start_provision", "stop_provision", "connect", "disconnect",
            "enable_ap", "disable_ap", "scan", "other"}

\* Sent, or lost: nobody looks at what hif_send returns.
hif_send(request) ==
  inbox' \in {inbox} \cup
    (IF Len(inbox) < MaxInbox THEN {Append(inbox, request)} ELSE {})

\* The application's handler only logs an error.  Those start-up raises are
\* kept; that a request is refused is not.
GenerateErrorEvent(error) == reported' = reported \cup {error}

Refused == UNCHANGED inbox

\* nm_get_firmware_full_info finds no register, no version or one that does
\* not fit the driver's (module DriverUtils compares them); a block read given
\* up leaves it any version to compare.
nm_get_firmware_info == UNCHANGED reported \/ GenerateErrorEvent("firmware_info")
-----------------------------------------------------------------------------
(* The parameter checks.                                                   *)

M2M_WIFI_CH_ALL == 255
M2M_MAX_SSID_LEN == 33
M2M_MAX_PSK_LEN == 65
WEP_KEY_LENGTHS == {10, 26}

isValidScanChannel(channel) == channel \in 1 .. 14 \cup {M2M_WIFI_CH_ALL}

\* The channel is handed on as a uint8_t.
isChannelValid(channel) == isValidScanChannel(channel % 256)

\* The address test looks at the first three bytes only.
isValidApParameters(ap) ==
  /\ ap.ssidLength \in 1 .. M2M_MAX_SSID_LEN - 1
  /\ ap.channel \in 1 .. 14
  /\ \E i \in 1 .. 3 : ap.address[i] # 0
  /\ \/ ap.security = "open"
     \/ ap.security = "wep" /\ ap.keyIndex \in 1 .. 4 /\ ap.keyLength \in WEP_KEY_LENGTHS
     \/ ap.security = "psk" /\ ap.keyLength + 1 \in 9 .. M2M_MAX_PSK_LEN

\* The length of the name is overwritten by the test itself and never refused.
isConnectionParamsValid(to) ==
  /\ to.security \in {"invalid", "open", "psk", "wep", "802.1x"}
  /\ isChannelValid(to.channel)
  /\ to.security = "wep" => to.keyIndex - 1 < 4 /\ to.keyLength - 1 \in WEP_KEY_LENGTHS
  /\ to.security = "psk" => to.keyLength \in 1 .. M2M_MAX_PSK_LEN - 1

ValidateScanOptions(options) ==
  /\ options.slots # 0
  /\ options.slotTime \in 10 .. 250
  /\ options.probes \in 1 .. 2
  /\ options.rssi \in -99 .. -1
-----------------------------------------------------------------------------
(* The requests.                                                           *)

ConnectInternal(to) ==
  IF isConnectionParamsValid(to) THEN hif_send("connect") ELSE Refused

m2m_wifi_connect(to) == ConnectInternal(to)

\* A redirect flag beyond 1 is reported and sent all the same.
m2m_wifi_start_provision_mode(ap) ==
  IF ~isValidApParameters(ap)
    THEN Refused /\ UNCHANGED g_scanInProgress
    ELSE hif_send("start_provision") /\ g_scanInProgress' = FALSE

m2m_wifi_stop_provision_mode == hif_send("stop_provision")

m2m_wifi_enable_sntp == hif_send("other")

m2m_wifi_disconnect == hif_send("disconnect")

m2m_wifi_enable_ap(ap) == IF isValidApParameters(ap) THEN hif_send("enable_ap") ELSE Refused
m2m_wifi_disable_ap == hif_send("disable_ap")

\* Addresses and the listen interval; power, log and battery; what is asked for.
m2m_wifi_set_address == hif_send("other")
m2m_wifi_set_power == hif_send("other")
m2m_wifi_get == hif_send("other")
m2m_wifi_req_curr_rssi == hif_send("other")
m2m_wifi_req_scan_result == hif_send("other")

\* Only in the manual sleep mode, which module Hif keeps.
m2m_wifi_request_sleep(manual) == IF manual THEN hif_send("other") ELSE Refused

M2M_DEVICE_NAME_MAX == 48
m2m_wifi_set_device_name(length) ==
  IF length < M2M_DEVICE_NAME_MAX THEN hif_send("other") ELSE Refused

M2M_WIFI_CUST_IE_LEN_MAX == 252
m2m_wifi_set_cust_InfoElement(length) ==
  IF length + 1 <= M2M_WIFI_CUST_IE_LEN_MAX THEN hif_send("other") ELSE Refused

\* The flag goes up whether the request was sent or not.
Scan(channelValid) ==
  IF g_scanInProgress THEN Refused /\ UNCHANGED g_scanInProgress
  ELSE IF ~channelValid THEN Refused /\ UNCHANGED g_scanInProgress
  ELSE hif_send("scan") /\ g_scanInProgress' = TRUE

m2m_wifi_request_scan(channel) == Scan(isValidScanChannel(channel))
m2m_wifi_request_scan_passive(channel) == Scan(isValidScanChannel(channel))

\* Only all channels at once, and at most four names.
m2m_wifi_req_hidden_ssid_scan(channel, names) ==
  IF names <= 4 \/ g_scanInProgress \/ channel # M2M_WIFI_CH_ALL
    THEN Scan(channel = M2M_WIFI_CH_ALL)
    ELSE Refused /\ UNCHANGED g_scanInProgress

\* Options of later scans, which the firmware keeps.
m2m_wifi_set_scan_options(options) ==
  IF ValidateScanOptions(options) THEN hif_send("other") ELSE Refused

m2m_wifi_set_scan_region(region) ==
  IF region \in {"north_america", "europe", "north_asia"}
    THEN hif_send("other") ELSE Refused

m2m_wifi_init == initState' = "START"
-----------------------------------------------------------------------------
(* The firmware, as far as the application's requests bring it.            *)

\* The request that ends a mode.
Ends(m) == CASE m = "provisioning" -> "stop_provision"
             [] m = "ap" -> "disable_ap"
             [] m = "station" -> "disconnect"
             [] OTHER -> "none"

\* A connection ends provisioning; provisioning ends a scan.
FirmwareTakes ==
  /\ inbox # <<>> /\ mode # "dead"
  /\ inbox' = Tail(inbox)
  /\ LET request == Head(inbox) IN
     /\ mode' = CASE request = "start_provision" -> "provisioning"
                  [] request = "enable_ap" -> "ap"
                  [] request = "connect" -> "station"
                  [] request = Ends(mode) -> "idle"
                  [] OTHER -> mode
     /\ scanning' = (request = "scan" \/ (scanning /\ request # "start_provision"))
  /\ UNCHANGED raised

FirmwareRaises ==
  /\ raised = "none" /\ mode # "dead"
  /\ raised' \in
       (CASE mode = "provisioning" -> {"address", "info_good", "info_bad_key", "info_failed"}
          [] mode = "ap" -> {"address"}
          [] mode = "station" -> {"connection_changed", "address", "sys_time"}
          [] OTHER -> {}) \cup (IF scanning THEN {"scan_done"} ELSE {})
  /\ scanning' = (scanning /\ raised' # "scan_done")
  /\ UNCHANGED <<inbox, mode>>

=============================================================================
