\* Three languages and two runs on one page.
SPECIFICATION FairSpec
CONSTANTS
  Languages = {"python", "java", "c"}
  MaxRuns = 2
INVARIANTS TypeOK EditorFollowsLanguage ShownIsLastReply
PROPERTIES OwnCodeKept RunComesBack
