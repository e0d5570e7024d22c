SPECIFICATION FairSpec
CONSTANTS
  Hosts <- MCHosts
  Clients <- MCClients
  Lengths <- MCLengths
  ARP_TABLE_SIZE = 2
  MEMP_NUM_ARP_QUEUE = 2
  ARP_MAXAGE = 2
  ARP_MAXPENDING = 2
  ETH_TXBUFNB = 2
  ETH_RXBUFNB = 2
  IndexEnd = 256
  TCP_RECEV_BUFF_SIZE = 1500
  MaxPkt = 2
  MaxFrames = 2
INVARIANTS TypeOK TableSound NoneLeaked RightHost RingsInStep InOrder
PROPERTIES QueueEmpties FramesTaken
