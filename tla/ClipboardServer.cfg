SPECIFICATION Spec
CONSTANTS
  h1 = h1
  h2 = h2
  h3 = h3
  shot = shot
  text = text
  None = None
  Item = {shot, text}
  Png = {shot}
  Embeddable = {text}
  Handler = {h1, h2, h3}
  Id = {1, 2, 3}
  MaxTime = 3
  HistorySize = 2
  HistoryTTL = 1
  MaxInFlight = 2
  MaxCache = 0
SYMMETRY Symmetry
INVARIANTS TypeOK FewOvertaken IdsNameTheirRead MetadataIsDropped SlotsAreReturned
