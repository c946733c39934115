\* Three entities, an owning relation and a link, every shape of graph, and
\* two calls merged in a scope.
CONSTANTS
  Entities = {a, b, c}
  Relations = {own, link}
  NoEntity = none
  OnDelete <- OwnDeletes
  Component <- OwnFirst
  Acyclic = {}
  Deferrable = {link}
  DeferKills = "unlinked"
  MaxCalls = 2
  own = own
  link = link
SPECIFICATION FairSpec
INVARIANTS
  TypeOK
  ReverseIndexExact
  Settled
  KilledOnce
  NothingFails
PROPERTY
  CallsReturn
