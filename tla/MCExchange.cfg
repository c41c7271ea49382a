SPECIFICATION ExchangeSpec
CONSTANTS
    Providers <- MCProviders
    ClaudeOptions <- MCClaudeOptions
    CodexOptions <- MCCodexOptions
    MaxMessages = 5
    MaxBlocks = 2
    MaxChunk = 3
    Wide = {3, 6}
INVARIANTS
    ContentArrives
    CallsArePaired
    StreamsAreUnderstood
    StreamsAsAsked
    TestedAsServed
    ChunksDontMatter
    ItemsAreClosed
    CallsAreTaken
CHECK_DEADLOCK FALSE
