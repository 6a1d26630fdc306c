CONSTANTS
  Erased = Erased
  MaxFaults = 1
  Active = "MQTT_USERPASS_TLS"
  Editable <- MCEditable
  Lengths <- MCLengths
  Id = {a, b}
  MaxSaves = 2
  MaxPowerFails = 1
SPECIFICATION Spec
SYMMETRY MCSymmetry
INVARIANT EnabledMeansEncrypted
