---------------------------- MODULE MCWifiSystem ----------------------------
(* WifiSystem with limits of one to two ticks and an inbox of two requests. *)
EXTENDS WifiSystem, DriverUtils

MCOwnAp == [ssidLength |-> 9, channel |-> 1, address |-> <<192, 168, 10>>,
            security |-> "psk", keyLength |-> 10]
MCOffered == [security |-> "psk", channel |-> M2M_WIFI_CH_ALL, keyLength |-> 12]
MCBadKey == [security |-> "psk", channel |-> M2M_WIFI_CH_ALL, keyLength |-> 0]

=============================================================================
