SPECIFICATION FairSpec
CONSTANTS
    stdio = stdio
    http = http
    search = search
    ticket = ticket
    Servers = {stdio, http}
    Remote = {http}
    nameless = nameless
    Names = {search, ticket, nameless}
    OpenApi = {}
    Catalogue <- SmallCatalogue
    Malformed <- Unlistable
    MaxChanges = 6
INVARIANTS TypeOK FilterIsExact ToolsOfLiveServers FailureHasCause
PROPERTIES SoundToolsArrive
