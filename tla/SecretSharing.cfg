\* GF(8); one- and two-byte secrets; 3-of-5 (the device's), 2-of-7 and 2-of-3; up to three shares
\* gathered, repeats allowed, at most one of them damaged.
CONSTANTS
  Width = 3
  Polynomial = 11
  SSS_MAX_SECRET_LEN = 2
  Dealings <- MCDealings
  Noise = {1, 6}
  MaxCollected = 3
SPECIFICATION Spec
INVARIANTS
  TypeOK
  QuorumRecovers
  DamageStaysInItsByte
  FewerSharesRevealNothing
  BytesSharedIndependently
CHECK_DEADLOCK FALSE
