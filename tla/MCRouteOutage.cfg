\* One project, one handler, no failing call.
CONSTANTS
  app = app
  shop = shop
  App = App
  Projects = {p1}
  Domains = {app, shop, App}
  RouteIds = {app, shop}
  RouteId <- Canonical
  Handlers = {h1}
  NoDomain = NoDomain
  NotFound = NotFound
  Nobody = Nobody
  MaxRequests = 4
  MaxFailures = 0
SPECIFICATION Spec
INVARIANT DeployedProjectIsReachable
CHECK_DEADLOCK FALSE
