\* A user of the command-line program next to a program that uses the library.
SPECIFICATION Spec
CONSTANTS
  Bases = {"k", "f", "0"}
  ZeroKey = "0"
  Depth = 2
  Items = {"x", "1", "", "one"}
  Fields = {"f"}
  Half = 2
  One = "one"
  Nothing = ""
  Second = 2
  Top = 3
  Star = 1
  Clients = {"cli", "go"}
  Requests = {}
  Lines <- AllLines
  ParseInt <- Words
  ParseFloat <- Numbers
  Spelling <- Spellings
  OtherNames <- SomeNames
  Starts <- AllStarts
  Uses <- AllUses
  MaxLines = 2
  MaxUses = 1
CHECK_DEADLOCK FALSE
INVARIANTS ShellTypeOK RoundTrip SessionKept FailsClean PatternsCover
