\* Two workers with any depends_on and the built-in one; one death, two starts.
SPECIFICATION FairSpec
CONSTANTS
  fs = fs
  a = a
  b = b
  ghost = ghost
  Names <- FourNames
  BuiltIn = fs
  Topology <- AB
  Dependencies <- Graphs
  Startable <- MostStartable
  NameLists <- Lists
  Nothing = Nothing
  Everything = Everything
  MaxStarts = 2
  MaxDeaths = 1
PROPERTIES StartEnds DestroyStopsEverything
