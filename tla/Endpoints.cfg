SPECIFICATION FairSpec
CONSTANTS
  Units = {u1, u2}
  Relations = {logs, files}
  Forwarders = {logs}
  Early = {logs}
  External = {e1}
  Ingress = {p1}
  None = None
  MaxChanges = 2
INVARIANTS TypeOK PublishedIsCurrent ExchangeFollows DeletedNotListed
PROPERTIES ImplementsDirectory NoSourceForgotten
           DatasourcesFollow ForwardersFollow PromtailFollows
CHECK_DEADLOCK FALSE
