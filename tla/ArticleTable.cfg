SPECIFICATION Spec
CONSTANTS
  Article = {a1}
  NoArticle = NoArticle
  Request = {r1, r2}
  MaxTime = 2
  MaxVersion = 3
  MaxFaults = 0
PROPERTIES TransitionsFollowTable
