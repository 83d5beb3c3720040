\* A question padded to the size of the buffer.
CONSTANTS
  MaxEvents = 1
  Lower <- MCLower
  Length <- MCLength
  allowed_domains <- MCDomains
  Queries <- MCPaddedQueries
  MaxDatagrams = 1
  DNS_BUF_SIZE = 256
SPECIFICATION DnsSpec
PROPERTIES
  StationResolvesInTraffic
CHECK_DEADLOCK FALSE
