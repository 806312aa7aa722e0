\* Three requests; one unnamed upstream, or two named ones.
SPECIFICATION Spec
CONSTANTS
  Requests = {r1, r2, r3}
  Upstreams = {u1, u2}
  MaxVersion = 2
  Nil = Nil
  Refused = Refused
  Failed = Failed
INVARIANTS TypeOK OneFetchAtATime
PROPERTIES CacheAdvances RequestsAnswered
