\* One source beside the one that is added, and its entries are spoilt at times;
\* every edit, any number of deaths.
CONSTANTS
  Known = {mes}
  Spoilt = {mes}
  Added = fab
SPECIFICATION Spec
INVARIANTS TypeOK OnboardingTakesEffect RoutedIsFound
PROPERTIES KnownFailsOnlyBySpoiltFile ServedStaysServed EventuallyRouted
