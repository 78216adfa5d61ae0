SPECIFICATION RouterSpec
CONSTANTS
    SegOrder <- MCSegOrder
    Params <- MCParams
    NameOf <- MCNameOf
    Stars <- MCStars
    AnyStar = "*"
    StartsWith <- MCStartsWith
    Slash = "/"
    Empty = ""
    Verbs = {"ANY", "GET"}
    Patterns <- MCPatterns
    BluePatterns <- MCBluePatterns
    UrlPrefixes <- MCUrlPrefixes
    Paths <- MCPaths
    MaxRoutes = 4
INVARIANTS RoutedByPattern ExactFirst ParamsRight NotFoundJustified
CHECK_DEADLOCK FALSE
