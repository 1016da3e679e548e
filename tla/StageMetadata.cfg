CONSTANTS
    Setters = {ann, bob}
    Bytes <- MCBytes
    Titles <- MCTitles
    defaultTitle <- MCDefault
    seventeenPlusTag <- MCTag
    Games = {"chess", "go"}
    Qualities = {"good"}
    Unknown = "unknown"
    space = " "
    maxTitleLength = 6
    documentedLength = 4
    None = None
SPECIFICATION Spec
INVARIANTS TypeOK TitleUpToDate FeedUpToDate TitleShown
SYMMETRY Symmetry
