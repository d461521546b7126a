\* A session ends when the editor has no more to send.
SPECIFICATION MCSpec
CHECK_DEADLOCK FALSE
CONSTANTS
  Files = {"a", "b"}
  Texts <- MCTexts
  Names = {"x"}
  Broken = {"bad"}
  Declares <- MCDeclares
  Mentions <- MCMentions
  OnDisk = {"def"}
  Changes <- MCChanges
  MaxEvents = 3
INVARIANTS NoStaleSquiggles AnswersCurrent NavigationRight
PROPERTIES Settles
