SPECIFICATION FairSpec
CONSTANTS
  e1 = e1
  e2 = e2
  Endpoints = {e1, e2}
  k1 = k1
  k2 = k2
  odd = odd
  Keys = {k1, k2, odd}
  SupportedKeys = {k1, k2}
  Trusts = {t1, t2}
  Sessions = {s1}
  NoProc = NoProc
  FirstEntries <- MCFirstEntries
  MaxChanges = 1
INVARIANTS
  TrustedKeysWereAccepted
  CredentialsFollowAcceptance
  OneKeyPerEndpoint
  TrustIsKept
PROPERTIES
  InvocationsReturn
