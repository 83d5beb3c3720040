\* Two events may wait: a report of the access point and what follows it.
CONSTANTS
  MaxEvents = 2
  Lower <- MCLower
  Length <- MCLength
  allowed_domains <- MCDomains
  Queries <- MCQueries
  MaxDatagrams = 1
  DNS_BUF_SIZE = 256
SPECIFICATION DnsSpec
INVARIANTS
  TypeOK
  ServersAfterAp
  OnlyAllowedAnswered
PROPERTIES
  BootCompletes
  StationResolves
CHECK_DEADLOCK FALSE
