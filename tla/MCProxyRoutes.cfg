\* Two projects, two sites one of which has two spellings, two handlers.
CONSTANTS
  app = app
  shop = shop
  App = App
  Projects = {p1, p2}
  Domains = {app, shop, App}
  RouteIds = {app, shop}
  RouteId <- Canonical
  Handlers = {h1, h2}
  NoDomain = NoDomain
  NotFound = NotFound
  Nobody = Nobody
  MaxRequests = 4
  MaxFailures = 2
SYMMETRY Symmetry
SPECIFICATION Spec
INVARIANTS
  TypeOK
  SnapshotIsCurrent
  UncontestedDomainIsServed
  StaleRouteIsTracked
PROPERTIES
  MarkOutlivesRoute
CHECK_DEADLOCK FALSE
