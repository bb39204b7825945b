CONSTANTS
  r1 = r1
  r2 = r2
  ReqIds <- Two
  Prompt = 2
  MaxModelLen = 6
  NumSpec = 2
  PrefixHits = {0, 1}
  Preempts = {r1}
  Aborts = {r2}
SPECIFICATION Spec
INVARIANTS
  CountsAgree
  InputsAreTheSequence
  DiscardsWhatIsNotExpected
CHECK_DEADLOCK FALSE
