SPECIFICATION Spec
CONSTANTS
  Calls = {c1}
  MaxAsked = 2
  Routes <- MCRoutes
  PrefixOf <- MCPrefixOf
  Requests <- MCRequests
  Responses <- MCResponses
  EventsOf <- MCEvents
  Options <- MCOptions
  Modules <- MCModules
  Fold <- MCFold
  Wrong = Wrong
  Undecodable = Undecodable
  Threshold = 256
  Preview = 32
INVARIANTS
  FlowObeyed
  FiltersAsAsked
  ModulesUnaffected
  LogAsConfigured
CHECK_DEADLOCK FALSE
