\* Chat beside embeddings of which nothing is assumed, a metrics scraper and
\* providers that may never answer.
SPECIFICATION ChatSpec
CONSTANTS
  m1 = m1
  m2 = m2
  m3 = m3
  prov1 = prov1
  prov2 = prov2
  prov3 = prov3
  Requests = {r1, r2}
  Providers = {prov1}
  Models = {m1}
  Keyed = {prov1}
  Kinds = {"chat", "embed"}
  Events = {"deadline", "scrape"}
  Route <- RouteSingle
  Limit <- OneEach
PROPERTY ChatFinishes
