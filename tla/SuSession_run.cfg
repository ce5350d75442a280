SPECIFICATION FairSpec
CONSTANTS
  Banners <- MCBanners
  OutputLimit = 8
  MaxPrinted = 3
INVARIANTS
  LeaksOnlyIfMisled
  OutcomeIsTrue
PROPERTIES
  SuReturns
