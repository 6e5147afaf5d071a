SPECIFICATION FairSpec
CONSTANTS
  s1 = s1
  s2 = s2
  s3 = s3
  Senders <- ThreeSenders
  First = s1
  Rx = rx
  SenderFd = sfd
  ReceiverFd = rfd
  NoFd = nofd
INVARIANTS
  LatestInv
  LiveHandlesKeepTheirEnd
  SoleOwner
  SerialDropsClear
PROPERTIES
  ImplementsPipe
  Teardown
  HangupDelivered
