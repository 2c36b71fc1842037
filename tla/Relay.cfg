\* Two sources on one port of two hosts, a sensor, and a cache for one address.
CONSTANTS
  Device <- Devices
  Origin <- Origins
  SeqNo <- Seqs
  Source <- Sources
  OriginOf <- Own
  RadioOf <- Radio
  PktLen <- Sizes
  Sensor <- Sensors
  SensorPayload <- Odd
  Fwd = {f1, f2}
  MaxAddrCache = 1
  MaxSent = 1
SPECIFICATION Spec
SYMMETRY Radios
INVARIANTS TypeOK RepliesComeHome PlayedAsSent FirstComeOnly CountBound
PROPERTIES ImplementsChannel
