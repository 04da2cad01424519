CONSTANTS
  A = A
  B = B
  C = C
  k1 = k1
  k2 = k2
  Node <- MCNode
  Link <- MCLink
  Ping <- MCPing
  MAX_ARP_ENTRIES = 3
  ClientHosts <- MCClientHosts
  ServerHosts <- MCServerHosts
SPECIFICATION FairSpec
INVARIANTS TypeOK AnswersAreOwn OneCopy DaemonsSurvive ReadsFromEvent
PROPERTIES Answered
\* The system stops when all clients have been served.
CHECK_DEADLOCK FALSE
