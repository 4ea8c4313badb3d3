CONSTANTS
  Keys = {0, 1, 4}
  Sizes = {1, 2}
  MaxCount = 8
  MaxEmplaced = 10
  Names = {"a", "e"}
  Wide = {"e"}
  Strings = {"1"}
  NoName = "none"
  MaxWritten = 5
  MaxNodes = 6
  Pointers = {p1, p2, p3}
  Objects = {o1, o2}
  Allocators = {a1, a2}
  Null = null
  PageLengths = {1, 2, 3}
  PageCounts = {1, 2}
  PageValues = {v1, v2}
  Unwritten = raw
  MaxLength = 7
  Chars = {32, 233, 8364, 127820, 48, 50, 45, 46}
  Dividers = {32, 233}
  MaxText = 4
  Width = 8
  FractionDigits = 3
  StringSet = {s1, s2}
  Marks = {32}
  Substitute = 97
  MaxBytes = 5
  MaxStringCalls = 3
  Size = 6
  MaxShortCalls = 5
  MaxBuffer = 3
  MaxFile = 2
  LengthModulus = 16
  Unset = unset
  Symbols = {"a", "Control_L", "Delete"}
  Details = {"1", "2", "4", "6"}
  PositionScale = 4
  NaN = nan
  MaxQueue = 2
  MaxActs = 4
  Analog = {t}
  Buttons = {b1, b2}
  StickPositions = {r, p, q}
  Rest = r
  PacketModulus = 4
  Fonts <- AllFonts
  Unit = 2
  MaxMoves = 3
  Waiters = {w1, w2}
  Workers = {k1, k2}
  MaxAdds = 3
  MaxGroups = 3
  PositionModulus = 4
  Minima = {0, 1, 3}
  MaxRows = 5
SPECIFICATION Spec
INVARIANTS CommasSeparate
CHECK_DEADLOCK FALSE
