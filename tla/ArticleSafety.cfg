SPECIFICATION Spec
CONSTANTS
  Article = {a1}
  NoArticle = NoArticle
  Request = {r1, r2}
  MaxTime = 2
  MaxVersion = 3
  MaxFaults = 1
SYMMETRY RequestSymmetry
INVARIANTS TypeOK EditVersionsUnique
PROPERTIES PublishedByEditor NeverPublishedEarly AckedMeansApplied DeletedForGood KeepsToLifecycle
