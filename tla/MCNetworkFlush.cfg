SPECIFICATION FairSpec
CONSTANTS
  Hosts <- MCHosts
  Clients <- MCClients
  Lengths <- MCLengths
  ARP_TABLE_SIZE = 2
  MEMP_NUM_ARP_QUEUE = 3
  ARP_MAXAGE = 2
  ARP_MAXPENDING = 2
  ETH_TXBUFNB = 2
  ETH_RXBUFNB = 2
  IndexEnd = 256
  TCP_RECEV_BUFF_SIZE = 1500
  MaxPkt = 3
  MaxFrames = 1
PROPERTY OkMeansSent
ACTION_CONSTRAINT WireFast
