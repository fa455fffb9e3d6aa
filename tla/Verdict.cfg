CONSTANTS
  h1 = h1
  h2 = h2
  t1 = t1
  j1 = j1
  j2 = j2
  x1 = x1
  TextCopies = 2
  MaxTurns = 2
  Sends = {h1, h2, t1}
  JobOf <- RetriedJob
  CopiesOf <- FewCopies
  Html = {h1, h2}
  Aliens = {x1}
SPECIFICATION FairSpec
INVARIANTS
  ConfirmedIsOnPaper
  NoPageProvesTwice
PROPERTIES
  IsAnAdapterCall
  OldPagesProveNothing
  HtmlSendsAnswer
CHECK_DEADLOCK FALSE
