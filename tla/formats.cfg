SPECIFICATION Spec
CONSTANTS
  Base = 5
  Ids <- EdgeIds
  Addresses <- EdgeAddresses
  Texts <- EdgeTexts
  Tables <- EdgeTables
  MaxTTL = 2
  MaxHops = 4
INVARIANTS TypeOK RoundTrip SpaceSuffices ContentSurvives
\* The journey of the message ends.
CHECK_DEADLOCK FALSE
