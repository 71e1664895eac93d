\* Every script, and every deferred completion with up to one keepalive, cut into chunks of up to three symbols.
CONSTANTS
  Scripts <- AllScripts  MaxChunk = 3  Results <- AllResults  MaxBeats = 1
SPECIFICATION FairSpec
INVARIANTS TypeOK ScannerExact OneRow BasisTellsEnding HonestEnd
PROPERTY EndsInLedger
CHECK_DEADLOCK FALSE
