------------------------------- MODULE WifiApp ------------------------------
(***************************************************************************)
(* src/src/wifi.c: the application's connection state machine, of which    *)
(* the superloop runs one state in every turn, and the handler of the      *)
(* driver's Wi-Fi events, which sets flags the states look at.             *)
(* wifi_state_checkSavedConnection and wifi_state_waitSavedConnection are  *)
(* never entered and left out.                                             *)
(***************************************************************************)
EXTENDS WifiDriver

CONSTANTS
  Offered,   \* what a user enters: the parameters of a good provision info ...
  BadKey,    \* ... and of one whose key is too long
  OwnAp      \* the application's access point

VARIABLES
  wifi_tasks,         \* the state the superloop calls next
  eventFlags,         \* those set of the flags the states look at
  connected,          \* wifiConnectionInfo.connected
  tcp_client_socket,  \* a socket is kept in it
  addressed           \* history: an address event since the last credentials

app == <<wifi_tasks, eventFlags, connected, tcp_client_socket, addressed>>

Flag == {"driverInitComplete", "ipAddressAssigned"}
States == {"initialize", "waitForBoot", "connectToWifi", "waitToConnect",
           "connectToServer"}

AppTypeOK ==
  /\ wifi_tasks \in States
  /\ eventFlags \subseteq Flag
  /\ connected \in BOOLEAN /\ tcp_client_socket \in BOOLEAN /\ addressed \in BOOLEAN

AppInit ==
  /\ wifi_tasks = "initialize" /\ eventFlags = {}
  /\ connected = FALSE /\ tcp_client_socket = FALSE /\ addressed = FALSE
-----------------------------------------------------------------------------
(* The event handler.                                                      *)

clearWifiEventFlags == eventFlags' = {}

Raise(flag) == eventFlags' = eventFlags \cup {flag}

\* The event of an access point's client and the station's own are the same.
AddressAssigned ==
  /\ Raise("ipAddressAssigned")
  /\ addressed' = TRUE
  /\ UNCHANGED <<connected, inbox>>

\* Mutant of ProvisionInfo: the access point's address event is kept.
ProvisionInfo_KeepsAddress(to) ==
  /\ m2m_wifi_connect(to)
  /\ connected' = TRUE /\ addressed' = FALSE
  /\ UNCHANGED eventFlags

\* Credentials have come.  That the request is refused or lost goes unnoticed.
ProvisionInfo(to) ==
  /\ m2m_wifi_connect(to)
  /\ connected' = TRUE /\ addressed' = FALSE
  /\ eventFlags' = eventFlags \ {"ipAddressAssigned"}

ProvisionFailed ==
  /\ m2m_wifi_stop_provision_mode
  /\ UNCHANGED <<eventFlags, connected, addressed>>

\* The time of a sys_time event goes to the clock, module Rtc.
m2m_wifi_handle_events(event) ==
  /\ CASE event = "info_good" -> ProvisionInfo(Offered)
       [] event = "info_bad_key" -> ProvisionInfo(BadKey)
       [] event = "info_failed" -> ProvisionFailed
       [] event = "address" -> AddressAssigned
       [] event = "driver_init" ->
            Raise("driverInitComplete") /\ UNCHANGED <<connected, addressed, inbox>>
       [] OTHER -> UNCHANGED <<eventFlags, connected, addressed, inbox>>
  /\ UNCHANGED <<wifi_tasks, tcp_client_socket>>
-----------------------------------------------------------------------------
(* The states.                                                             *)

wifi_state_initialize ==
  /\ wifi_tasks = "initialize"
  /\ clearWifiEventFlags
  /\ m2m_wifi_init
  /\ wifi_tasks' = "waitForBoot"
  /\ connected' = FALSE
  /\ UNCHANGED <<tcp_client_socket, addressed, g_scanInProgress, reported, inbox>>

\* The driver's question about the firmware is asked again, and may raise its
\* errors again; m2m_wifi_get_mac_address only reads.
wifi_state_waitForBoot ==
  /\ wifi_tasks = "waitForBoot"
  /\ IF "driverInitComplete" \in eventFlags
       THEN wifi_tasks' = "connectToWifi" /\ nm_get_firmware_info
       ELSE UNCHANGED <<wifi_tasks, reported>>
  /\ UNCHANGED <<eventFlags, connected, tcp_client_socket, addressed,
                 initState, g_scanInProgress, inbox>>

wifi_state_connectToWifi ==
  /\ wifi_tasks = "connectToWifi"
  /\ m2m_wifi_start_provision_mode(OwnAp)
  /\ wifi_tasks' = "waitToConnect"
  /\ UNCHANGED <<eventFlags, connected, tcp_client_socket, addressed, initState, reported>>

\* A connection that cannot be begun closes the socket; either way there is
\* nothing more to do.
wifi_state_waitToConnect ==
  /\ wifi_tasks = "waitToConnect"
  /\ IF connected /\ "ipAddressAssigned" \in eventFlags
       THEN /\ m2m_wifi_enable_sntp
            /\ tcp_client_socket' \in BOOLEAN
            /\ wifi_tasks' = "connectToServer"
       ELSE UNCHANGED <<wifi_tasks, tcp_client_socket, inbox>>
  /\ UNCHANGED <<eventFlags, connected, addressed, initState, g_scanInProgress, reported>>

wifi_state_connectToServer ==
  /\ wifi_tasks = "connectToServer"
  /\ UNCHANGED <<app, initState, g_scanInProgress, reported, inbox>>

wifi_state ==
  \/ wifi_state_initialize \/ wifi_state_waitForBoot \/ wifi_state_connectToWifi
  \/ wifi_state_waitToConnect \/ wifi_state_connectToServer

=============================================================================
