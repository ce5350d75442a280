SPECIFICATION Spec
CONSTANTS
  Banners <- MCBanners
  OutputLimit = 8
  MaxPrinted = 1
INVARIANTS
  TypedOnlyAtPrompt
