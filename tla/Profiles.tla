------------------------------ MODULE Profiles ------------------------------
(***************************************************************************)
(* The table PROFILES of cores/arduino/config/DeviceConfig.cpp: which      *)
(* zones of the secure element hold a setting under each connection        *)
(* profile.  A setting a profile does not use has no zones.  The settings  *)
(* kept in /fs/device.cfg are ConfigFile's.                                *)
(***************************************************************************)
EXTENDS Integers, Sequences

Profile == {"NONE", "MQTT_USERPASS", "MQTT_USERPASS_TLS", "MQTT_MTLS", "IOTHUB_SAS",
            "IOTHUB_CERT", "DPS_SAS", "DPS_CERT", "DPS_SAS_GROUP"}

Setting == {"WIFI_SSID", "WIFI_PASSWORD", "BROKER_URL", "DEVICE_ID", "DEVICE_PASSWORD",
            "CA_CERT", "CLIENT_CERT", "CLIENT_KEY", "CONNECTION_STRING", "DPS_ENDPOINT",
            "SCOPE_ID", "REGISTRATION_ID", "SYMMETRIC_KEY", "DEVICE_CERT"}

(* The settings of a profile beyond the two WiFi ones, with their zones.   *)
Credentials(p) ==
  CASE p = "MQTT_USERPASS" ->
         {<<"BROKER_URL", <<5>>>>, <<"DEVICE_ID", <<6>>>>, <<"DEVICE_PASSWORD", <<7>>>>}
    [] p = "MQTT_USERPASS_TLS" ->
         {<<"BROKER_URL", <<5>>>>, <<"DEVICE_ID", <<2>>>>, <<"DEVICE_PASSWORD", <<6>>>>,
          <<"CA_CERT", <<0, 7, 8>>>>}
    [] p = "MQTT_MTLS" ->
         {<<"BROKER_URL", <<2>>>>, <<"CA_CERT", <<5, 0>>>>, <<"CLIENT_CERT", <<6, 7>>>>,
          <<"CLIENT_KEY", <<8>>>>}
    [] p = "IOTHUB_SAS" ->
         {<<"CONNECTION_STRING", <<5>>>>}
    [] p = "IOTHUB_CERT" ->
         {<<"CONNECTION_STRING", <<5>>>>, <<"DEVICE_CERT", <<0, 7, 8>>>>}
    [] p \in {"DPS_SAS", "DPS_SAS_GROUP"} ->
         {<<"DPS_ENDPOINT", <<5>>>>, <<"SCOPE_ID", <<2>>>>, <<"REGISTRATION_ID", <<6>>>>,
          <<"SYMMETRIC_KEY", <<7>>>>}
    [] p = "DPS_CERT" ->
         {<<"DPS_ENDPOINT", <<2>>>>, <<"SCOPE_ID", <<5>>>>, <<"REGISTRATION_ID", <<6>>>>,
          <<"DEVICE_CERT", <<0, 7, 8>>>>}
    [] OTHER -> {}

MappingShared(p) ==                                       \* wrong: one zone for both
  Credentials(p) \cup {<<"WIFI_SSID", <<3>>>>, <<"WIFI_PASSWORD", <<3>>>>}

Mapping(p) ==
  IF p = "NONE" THEN {}
  ELSE Credentials(p) \cup {<<"WIFI_SSID", <<3>>>>, <<"WIFI_PASSWORD", <<10>>>>}

(* DeviceConfig_IsSettingAvailable, for the settings the chip holds.       *)
Available(p) == {m[1] : m \in Mapping(p)}

Zones(p, s) ==
  IF s \in Available(p) THEN (CHOOSE m \in Mapping(p) : m[1] = s)[2] ELSE <<>>

ZoneSet(p, s) == {Zones(p, s)[i] : i \in 1 .. Len(Zones(p, s))}
=============================================================================
