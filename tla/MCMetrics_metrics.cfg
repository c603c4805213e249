\* Two calls, to one provider and model or to two, recorded while a scraper reads
\* again and again.
CONSTANTS
  Calls = {c1, c2}
  Keys = {k1, k2}
  Reasons = {rate_limited, upstream_5xx}
  Buckets = 3
SPECIFICATION Spec
INVARIANTS
  MetricsInv
  HistogramIsCumulative
  SeriesReconcile
PROPERTIES
  MapsStandStill
  CountersNeverFall
SYMMETRY Symmetry
