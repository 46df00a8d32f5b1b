SPECIFICATION Spec
CONSTANTS
  Keywords <- MCKeywords
  BuiltinFunctions <- MCFunctions
  CharsetNames <- MCCharsets
  MaxSet = 2
  MaxPacketSize = 4
  SequenceNumbers = 4
  FloatDigits = 3
  digitsPerWord = 2
  wordBufLen = 3
  Width = 8
  PartitionLength = 4
  Crc32 <- MCCrc32
  Murmur <- MCMurmur
  CivilDate <- MCCivil
  ToLower <- MCLower
  TrimSpace <- MCTrim
  Charsets = {"utf8", "gbk"}
  CollationCharset <- MCCollations
  UTF8Charset = "utf8"
PROPERTY PrintsAll
PROPERTY PrintedIsVisited
PROPERTY ReadAsMeant
PROPERTY PreviewIsParsed
PROPERTY SameFingerprint
PROPERTY DecimalsExact
PROPERTY ReadAsWritten
PROPERTY PreparedRowIsRow
PROPERTY RoutedWhereStored
PROPERTY MergedAsWhole
PROPERTY VerifiedIsLoaded
