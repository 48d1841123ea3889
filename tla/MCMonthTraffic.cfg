CONSTANT MaxCount = 2
SPECIFICATION FairSpec
INVARIANTS TypeOK PublishedWhole RecordReadable
PROPERTIES BaselineStable ServerStops
