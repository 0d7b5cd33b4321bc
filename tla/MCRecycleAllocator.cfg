SPECIFICATION IdSpec
CONSTANT MaxIds = 5
INVARIANTS UniqueIds IdsBoundedByPeak
