--------------------------- MODULE MCDeviceConfig ---------------------------
(* Username and password over TLS: a setting of one chunk, one of one zone *)
(* and two chunks, and a certificate over three zones.                     *)
EXTENDS DeviceConfig, SequencesExt

MCEditable == {"WIFI_SSID", "BROKER_URL", "CA_CERT"}
MCLengths == {1, 2, 7}
MCSymmetry == Permutations(Id)
=============================================================================
