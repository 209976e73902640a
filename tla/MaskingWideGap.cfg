\* A citizenship of two words, two blanks apart.
CONSTANTS
  moscow = moscow
  kazan = kazan
  near = near
  st = st
  bank = bank
  seven = seven
  date = date
  code = code
  blank = blank
  newline = newline
  dot = dot
  comma = comma
  semicolon = semicolon
  address = address
  birthPlace = birthPlace
  citizenship = citizenship
  authority = authority
  city = city
  roman = roman
  pushkin = pushkin
  client = client
  inn = inn
  dash = dash
  fullName = fullName
  initials = initials
  pair = pair
  cardholder = cardholder
  passport = passport
  birthDate = birthDate
  ivan = ivan
  postal = postal
  Capital = {moscow, kazan, roman, pushkin, ivan}
  Small = {near, st, bank, code, client, inn}
  Numbers = {seven, date}
  Markers = {st}
  Abbreviations = {st}
  Dates = {date}
  BankWords = {bank}
  UnitCode = code
  Blank = blank
  Newline = newline
  Dot = dot
  Comma = comma
  Semicolon = semicolon
  Address = address
  BirthPlace = birthPlace
  Citizenship = citizenship
  IssuingAuthority = authority
  Filtered = {address, city, postal}
  FullName = fullName
  SurnameInitials = initials
  NamePair = pair
  CardholderName = cardholder
  PassportNumber = passport
  DateTypes = {birthDate}
  BarePostalCode = postal
  CityMark = st
  Latin = {ivan}
  CommonNames = {roman}
  Surnames = {kazan, pushkin}
  PublicFigures = {pushkin}
  ClientWords = {client}
  DocLabels = {inn}
  Dash = dash
  Reach = 4
  Types = {address, city, citizenship}
  Confidence <- MCConfidence
  Spans <- MCWideSpans
  Texts <- MCWideTexts
  Allowed = {address, citizenship}
  MaxMatches <- MCWideMaxMatches
SPECIFICATION Spec
CHECK_DEADLOCK FALSE
INVARIANTS
  OriginalRestored
