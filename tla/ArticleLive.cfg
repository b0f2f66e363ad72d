SPECIFICATION FairSpec
CONSTANTS
  Article = {a1}
  NoArticle = NoArticle
  Request = {r1}
  MaxTime = 2
  MaxVersion = 2
  MaxFaults = 2
PROPERTIES DueIsPublished
