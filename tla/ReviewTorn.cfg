CONSTANTS
  r1 = r1
  r2 = r2
  p1 = p1
  p2 = p2
  good = good
  newer = newer
  broken = broken
  s1 = s1
  s2 = s2
  s3 = s3
  label = label
  b1 = b1
  b2 = b2
  a1 = a1
  a2 = a2
  embedded = embedded
  equivalent = equivalent
  Runs = {r1}
  NoRun = NoRun
  Pages = {p1, p2}
  Contents = {good, newer, broken}
  NoContent = NoContent
  Manifest <- MCManifest
  Pins <- MCPins
  Parsers <- MCParsers
  Keys = {label}
  Unmapped <- MCUnmapped
  Symbols = {s1, s2, s3}
  Found <- MCFound
  Verdict <- MCVerdict
  Publishers = {b1, b2}
  Publishing <- MCPublishing
  MaxAttempts = 2
  Profiles <- MCProfiles
  Reviewers = {a1, a2}
  Relations = {embedded, equivalent}
  NoMatch = NoMatch
SPECIFICATION Spec
CHECK_DEADLOCK FALSE
PROPERTY
  DecidedAsShown
