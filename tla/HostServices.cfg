SPECIFICATION ServiceSpec
CONSTANTS
    Threads = {t1, t2}
    MaxConns = 3
    MaxScopes = 3
    MaxWrites = 2
    MinConnections = 1
    MaxConnections = 1
    Programs <- MCPrograms
    NoConn = NoConn
    Callers = {t1, t2}
    PgConns = {c1}
    MaxCommands = 2
    Answers <- MCAnswers
    NoCaller = NoCaller
    MailCallers = {t1, t2}
    Protocols = {"smtp", "raw", "imap", "pop3"}
    MaxCalls <- MCMaxCalls
    Nobody = Nobody
    WebThreads = {t1, t2}
    WebClients = {w1, w2}
    WsClient = w1
    Roles <- MCRoles
    Scripts <- MCScripts
    MaxWebCalls = 3
    NoOne = NoOne
CHECK_DEADLOCK FALSE
INVARIANTS
    ConnectionsSafe
    QueriesSafe
    MailSafe
    WebSafe
PROPERTIES
    ScopesNest
