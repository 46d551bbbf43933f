\* Two workers, four hosts, two addresses, four redirects where the code follows five.
SPECIFICATION ClientSpec
CONSTANTS
  Callers = {w1, w2}
  Hosts = {"a", "b", "c", "d"}
  Addresses = {"public", "private"}
  Public = {"public"}
  Literal <- MCLiteral
  Allowed <- MCAllowed
  Redirects = 4
  Answers <- MCAnswers
  None = None
SYMMETRY Symmetry
INVARIANTS
  ConnectionsArePublic
  AnswersAreTheLinks
