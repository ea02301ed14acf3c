SPECIFICATION FrontendSpec
CONSTANTS
    Texts <- MCTexts
    Control = {"NUL"}
    MaxI64 = 7
    OtherCase <- MCOtherCase
    Meaning <- MCMeaning
INVARIANTS TypeOK TokensLocated WordsAreTokens WrittenIsRead NamesAreKept
CHECK_DEADLOCK FALSE
