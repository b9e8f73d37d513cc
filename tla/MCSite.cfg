\* MCSite: from reading webserv.conf to serving every kind of request.
SPECIFICATION Spec
CONSTANTS
    Texts <- MCTexts
    Blank = " "
    Chars <- MCChars
    Number <- MCNumber
    Upper <- MCUpper
    MaxDirectives = 12
    InitialFiles <- MCFiles
    InitialDirs <- MCDirs
    URLs <- MCURLs
    Cwd <- MCCwd
    Uploads <- MCUploads
    Leading <- MCLeading
    MaxInt = 100000
    MaxLong = 200000
    Outputs <- MCOutputs
INVARIANT TypeOK
INVARIANT EveryDirectiveIsRead
INVARIANT UploadIsServed
INVARIANT DeletedIsGone
INVARIANT AnswersAreWhole
INVARIANT RobustStaysUp
PROPERTY ChangesAreAllowed
PROPERTY ChangesStayBelow
PROPERTY StartsOrEnds
CHECK_DEADLOCK FALSE
