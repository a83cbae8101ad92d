\* Writes, partial writes, expiry and scrapes.
SPECIFICATION Spec
CONSTANTS
  multi = multi
  single = single
  in = in
  out = out
  value = value
  node = node
  op = op
  Stat <- MCStat
  Family <- MCFamily
  FamiliesOf <- MCFamiliesOf
  Tags <- MCTags
  Label <- MCLabel
  LabelsOf <- MCLabelsOf
  UpdateIntvl <- MCUpdateIntvl
  MinUpdateInvtl = 6
  Multiplier = 1
  MinExpiration = 1
  ExpiryMultiplier = 2
  Never = Never
  MaxTime = 3
INVARIANTS
  TypeOK
  LabelCounts
  PageIsSound
PROPERTY
  ScrapesAreExact
