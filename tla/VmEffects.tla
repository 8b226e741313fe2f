------------------------------ MODULE VmEffects ------------------------------
(***************************************************************************)
(* What each opcode the compiler emits does to the operand stack of the    *)
(* interpreter (runtime/interpreter.inc.rs), and each database operation   *)
(* of the host (runtime/host.inc.rs).  An opcode takes its operands from   *)
(* the top and leaves its answers there; what it computes is left out.     *)
(* They differ in what they do about an operand of another type:           *)
(*   Takes    it counts as a default;                                      *)
(*   Demands  the program ends (and at a bad index, key or divisor);       *)
(*   Asks     the answer is -1 at once, with the operands below left alone.*)
(***************************************************************************)
EXTENDS Integers, TLC

Effects(n, m, wrong, ops) == [o \in ops |-> [takes |-> n, leaves |-> m, wrong |-> wrong]]

Takes(n, ops)    == Effects(n, 1, "default", ops)
Demands(n, ops)  == Effects(n, 1, "end", ops)
Asks(n, ops)     == Effects(n, 1, "answer", ops)
Mutes(n, ops)    == Effects(n, 0, "default", ops)   \* leave no answer
Gives(n, m, ops) == Effects(n, m, "answer", ops)    \* leave several
Missing(n, ops)  == Effects(n, 0, "missing", ops)   \* end the program at once

-----------------------------------------------------------------------------
(* Opcodes of the language.                                               *)

\* Printing.
RunPrintStr == Mutes(0, {"Print"}) @@ Mutes(1, {"PrintStrVal"})
RunPrints ==
    Mutes(0, {"PrintRaw", "PrintLn"}) @@ Mutes(1, {"PrintTop", "PrintRawStrVal"})

\* Closures.
RunClosures == Takes(0, {"ClosureNew"}) @@ Demands(2, {"ClosureCapture"})

\* Regions, handlers and the exception caught.
RunRegions == Takes(0, {"RegionEnter", "RegionExit"})
RunHandlers == Mutes(0, {"SetUnwindHandler", "ClearUnwindHandler"})
RunException == Takes(0, {"GetException"})

\* Branches.
RunBranches == Effects(1, 0, "end", {"JumpIfFalse"})

\* Tasks.
RunTasks == Demands(2, {"TaskSpawn", "TaskPushArg"})

\* Calls of C functions, here with two arguments, and of the embedding program.
RunExtern == Demands(2, {"ExternCall"})
RunGeneric == Takes(1, {"HostCallGeneric"})

\* Sums, differences and products.
RunArithmetic ==
    Demands(2, {"AddI64", "SubI64", "MulI64"})

\* Quotients and remainders.
RunDivision ==
    Demands(2, {"DivI64", "ModI64"})

\* Comparisons, concatenation and bits.
RunComparisons ==
    Demands(2, {"EqStr", "ConcatStr", "ShlI64", "ShrI64", "AndI64", "OrI64",
                "XorI64"})
    @@ Takes(2, {"LtI64", "EqI64"})

\* Lists.
RunLists ==
    Takes(0, {"ListNew"})
    @@ Demands(1, {"ListLen", "ListSort"})
    @@ Demands(2, {"ListPush", "ListGet", "ListRemove"})
    @@ Demands(3, {"ListSet"})

\* Maps.
RunMaps ==
    Takes(0, {"MapNew"})
    @@ Demands(1, {"MapLen", "MapKeys"})
    @@ Demands(2, {"MapGet", "MapContainsKey", "MapRemove", "MapMerge"})
    @@ Demands(3, {"MapPut"})

\* Strings: search.
RunStrings ==
    Demands(1, {"StrLen"})
    @@ Demands(2, {"StrIndexOf", "StrLastIndexOf", "StrStartsWith", "StrEndsWith",
                   "StrSplit"})
    @@ Demands(3, {"StrSubstring"})

\* Strings: new strings.
RunStringEdits ==
    Demands(1, {"StrTrim", "StrToLower", "StrToUpper"})
    @@ Demands(2, {"StrCharAt", "StrContains", "StrRepeat"})
    @@ Demands(3, {"StrReplace"})

\* Strings and numbers.
RunStringNumbers ==
    Demands(1, {"StrParseInt", "StrParseFloat", "StrFromInt", "StrFromFloat"})

\* Optional values.
RunOptionals ==
    Takes(0, {"OptNone"})
    @@ Demands(1, {"OptSome", "OptIsSome", "OptUnwrap"})
    @@ Demands(2, {"OptOrElse"})

\* Structs.
RunStructs ==
    Demands(1, {"StructTypeName"})
    @@ Demands(2, {"StructNew", "StructGet", "StructGetNamed", "StructCopy"})
    @@ Demands(3, {"StructSetNamed"})
    @@ Demands(4, {"StructSet"})

\* Enums.
RunEnums ==
    Demands(1, {"EnumGetTag"})
    @@ Demands(2, {"EnumGetPayload"})
    @@ Demands(3, {"EnumSetPayload"})
    @@ Demands(4, {"EnumNew"})

\* JSON texts.
RunJson ==
    Demands(1, {"JsonStringify", "JsonParse"})
    @@ Demands(2, {"StructToJson", "JsonToStruct"})

\* JSON values.
RunJsonFields ==
    Takes(1, {"JsonGetString", "JsonGetNumber", "JsonGetBool", "JsonIsNull",
              "JsonIsObject", "JsonIsArray", "JsonArrayLen", "JsonKeys"})
    @@ Takes(2, {"JsonGetField", "JsonGetIndex"})

\* Shared cells.
RunSharedCells ==
    Takes(0, {"SharedGetByName", "SharedNew"})
    @@ Demands(1, {"SharedLoad"})
    @@ Demands(2, {"SharedStore"})

\* Mathematics.
RunMath ==
    Demands(1, {"SqrtF64", "SinF64", "CosF64", "TanF64", "FloorF64", "CeilF64",
                "RoundF64"})
    @@ Demands(2, {"PowF64"})

\* Casts.
RunCasts ==
    Takes(1, {"ToF64", "ToI64OrEnumTag", "ToI8", "ToI16"})

\* Casts to wider numbers.
RunWideCasts ==
    Takes(1, {"ToI32", "ToU8", "ToU16", "ToU32", "ToU64", "ToF32"})

\* Casts to booleans and characters.
RunOtherCasts ==
    Takes(1, {"ToBool", "ToChar"})

\* Decimal numbers.
RunDecimals ==
    Takes(1, {"BigDecimalNew", "BigDecimalFromInt", "BigDecimalFromFloat",
              "BigDecimalNegate"})
    @@ Takes(2, {"BigDecimalAdd", "BigDecimalSub", "BigDecimalMul", "BigDecimalRem",
                 "BigDecimalPow", "BigDecimalCompare"})
    @@ Takes(3, {"BigDecimalDiv"})

\* Decimal numbers as other values.
RunDecimalViews ==
    Takes(1, {"BigDecimalToString", "BigDecimalToInt", "BigDecimalToFloat",
              "BigDecimalScale"})
    @@ Takes(3, {"BigDecimalSetScale", "BigDecimalRound"})

\* Large integers.
RunBigInts ==
    Takes(1, {"BigIntNew", "BigIntFromInt", "BigIntNegate", "BigIntToString",
              "BigIntToInt"})
    @@ Takes(2, {"BigIntAdd", "BigIntSub", "BigIntMul", "BigIntDiv", "BigIntRem",
                 "BigIntPow", "BigIntCompare"})

\* The executor.
RunExecutor ==
    Takes(0, {"ExecutorThreadCount", "ExecutorActiveWorkers",
              "ExecutorActiveExecutorCount", "ExecutorResetStats"})
    @@ Takes(1, {"ExecutorInit", "ExecutorSpawn", "ExecutorJoin",
                 "ExecutorWorkerTaskCount"})
    @@ Takes(2, {"ExecutorSpawnWithArg"})
    @@ Takes(3, {"ExecutorSpawnAwait"})

\* Channels: messages and state.
RunChannels ==
    Takes(1, {"MpmcChanCreate", "MpmcChanRecv", "MpmcChanRecvBlocking",
              "MpmcChanClose", "MpmcChanLen", "MpmcChanIsEmpty", "MpmcChanIsFull",
              "MpmcChanIsClosed", "MpmcChanCapacity"})
    @@ Takes(2, {"MpmcChanSend", "MpmcChanSendBlocking"})
    @@ Takes(3, {"MpmcChanSendWithTask"})

\* Channels: tasks that wait.
RunChannelTasks ==
    Takes(0, {"MpmcChanGetWaitingSenderValue", "MpmcChanGetWokenSender",
              "MpmcChanGetWokenReceiver"})
    @@ Takes(1, {"MpmcChanRecvAndWake", "MpmcChanPopWaitingSender",
                 "MpmcChanPopWaitingReceiver", "MpmcChanWaitingSenderCount",
                 "MpmcChanWaitingReceiverCount"})
    @@ Takes(2, {"MpmcChanRecvWithTask", "MpmcChanSendAndWake"})

\* Channels: select.
RunSelect ==
    Mutes(0, {"MpmcChanSelectClear"})
    @@ Takes(0, {"MpmcChanSelectCount", "MpmcChanTrySelectRecv",
                 "MpmcChanSelectRecvBlocking", "MpmcChanSelectGetReadyIndex",
                 "MpmcChanSelectGetValue"})
    @@ Takes(1, {"MpmcChanSelectAdd", "MpmcChanSelectRecvWithTask",
                 "MpmcChanSelectGetHandle"})
    @@ Mutes(2, {"MpmcChanSelectDeregister"})

\* Actors.
RunActors ==
    Takes(1, {"ActorCreate", "ActorRecv", "ActorRecvBlocking", "ActorClose",
              "ActorStop", "ActorGetTask", "ActorGetMailbox", "ActorIsRunning",
              "ActorGetState"})
    @@ Takes(2, {"ActorSpawn", "ActorSend", "ActorSendBlocking"})

\* The state of actors.
RunActorState ==
    Takes(1, {"ActorMessageCount", "ActorMailboxEmpty", "ActorMailboxLen",
              "ActorMarkStopped", "ActorMarkFailed", "ActorIsFailed"})
    @@ Takes(2, {"ActorSetTask"})

\* Atomic cells.
RunAtomics ==
    Takes(1, {"AtomicCreate", "AtomicLoad"})
    @@ Takes(2, {"AtomicStore", "AtomicFetchAdd", "AtomicFetchSub", "AtomicSwap"})
    @@ Takes(3, {"AtomicCas"})

\* Further operations on atomic cells.
RunAtomicAliases ==
    Takes(1, {"AtomicGet", "AtomicInc", "AtomicDec"})
    @@ Takes(2, {"AtomicSet"})

\* Event loops.
RunEventLoop ==
    Takes(0, {"EventLoopCreate", "EventLoopPipeCreate", "EventLoopPipeGetWriteFd"})
    @@ Takes(1, {"EventLoopGetEvent", "EventLoopGetEventType", "EventLoopClose"})
    @@ Takes(2, {"EventLoopRegisterTimer", "EventLoopDeregister", "EventLoopPoll"})
    @@ Takes(3, {"EventLoopRegisterFd"})

\* Pipes.
RunPipes ==
    Takes(1, {"EventLoopPipeRead", "EventLoopPipeClose"})
    @@ Takes(2, {"EventLoopPipeWrite"})

\* Timers.
RunTimers ==
    Takes(0, {"TimerPollExpired", "TimerNow"})
    @@ Mutes(1, {"TimerSleep"})
    @@ Takes(1, {"TimerCheckExpired", "TimerGetWaitingTask", "TimerCancel",
                 "TimerElapsed", "TimerRemove", "TimerRemaining"})
    @@ Takes(2, {"TimerSleepAsync"})

\* Listeners, connecting and reading.
RunTcp ==
    Takes(1, {"TcpListenerBind", "TcpListenerAccept", "TcpListenerClose",
              "TcpListenerLocalPort"})
    @@ Takes(2, {"TcpListenerAcceptAsync", "TcpStreamConnect", "TcpStreamRead"})
    @@ Takes(3, {"TcpStreamConnectAsync"})

\* TCP streams.
RunTcpStreams ==
    Takes(0, {"TcpStreamGetLastRead"})
    @@ Takes(1, {"TcpStreamClose"})
    @@ Takes(2, {"TcpStreamWrite", "TcpStreamSetTimeout"})
    @@ Takes(3, {"TcpStreamReadAsync", "TcpStreamWriteAsync"})

\* Requests of the TCP operations.
RunTcpRequests ==
    Takes(0, {"TcpPollReady"})
    @@ Takes(1, {"TcpCheckReady", "TcpGetResult", "TcpRemoveRequest"})

\* HTTP requests and responses.
RunHttpClient ==
    Takes(1, {"HttpResponseStatus", "HttpResponseBody"})
    @@ Takes(2, {"HttpGet", "HttpResponseHeader"})
    @@ Takes(3, {"HttpPost", "HttpGetAsync"})
    @@ Takes(4, {"HttpPostAsync"})

\* Asynchronous HTTP requests.
RunHttpRequests ==
    Takes(0, {"HttpPollReady"})
    @@ Takes(1, {"HttpResponseClose", "HttpCheckReady", "HttpGetResult",
                 "HttpRemoveRequest", "HttpGetBodyLength", "HttpGetHeaderCount"})

\* HTTP servers and requests received.
RunHttpServer ==
    Takes(1, {"HttpServerCreate", "HttpServerClose", "HttpServerGetPort",
              "HttpServerAccept", "HttpRequestMethod", "HttpRequestPath"})
    @@ Takes(2, {"HttpServerAcceptAsync", "HttpRequestHeader"})

\* Answers to HTTP requests.
RunHttpExchange ==
    Takes(1, {"HttpRequestBody", "HttpRequestHeaderCount", "HttpRequestBodyLength",
              "HttpWriterSend"})
    @@ Takes(2, {"HttpWriterStatus", "HttpWriterBody", "HttpWriterSendAsync"})
    @@ Takes(3, {"HttpWriterHeader"})

\* Requests of the server operations.
RunHttpReplies ==
    Takes(0, {"HttpServerPollReady"})
    @@ Takes(1, {"HttpServerCheckReady", "HttpServerGetResult",
                 "HttpServerRemoveRequest"})

-----------------------------------------------------------------------------
(* Input and output, network and clock of the host.                       *)

\* Files.
RunFiles ==
    Asks(1, {"FileClose", "FileFlush", "FileSize", "FileExists", "FileDelete"})
    @@ Asks(2, {"FileOpen", "FileRead", "FileWriteStr"})
    @@ Asks(3, {"FileSeek"})

\* Copies of files, and directories.
RunDirectories ==
    Asks(1, {"DirCreate", "DirCreateAll", "DirDelete", "DirList", "DirExists",
             "IsDir", "IsFile"})
    @@ Asks(2, {"FileCopy", "FileMove"})

\* Paths and the console.
RunConsole ==
    Takes(0, {"ConsoleReadLine"})
    @@ Asks(1, {"PathAbsolute", "ConsoleWrite", "ConsoleWriteErr"})

\* The HTTP services.
RunHttpHost ==
    Asks(1, {"HttpFetch"})
    @@ Takes(1, {"HttpServe", "HttpAccept"})
    @@ Mutes(3, {"HttpRespond"})

\* Clocks.
RunClocks ==
    Takes(0, {"InstantNow", "DateTimeNow"})
    @@ Asks(1, {"InstantElapsed"})
    @@ Missing(2, {"DateTimeParse", "DateTimeFormat"})

-----------------------------------------------------------------------------
(* Databases of the host.                                                 *)

\* SQLite: statements.
RunSqlite ==
    Asks(1, {"SqliteOpen", "SqliteClose", "SqliteStep", "SqliteFinalize",
             "SqliteReset"})
    @@ Asks(2, {"SqlitePrepare"})
    @@ Asks(3, {"SqliteBindInt"})

\* SQLite: parameters.
RunSqliteBinds ==
    Asks(2, {"SqliteBindNull"})
    @@ Asks(3, {"SqliteBindInt64", "SqliteBindDouble", "SqliteBindText",
                "SqliteBindBlob"})

\* SQLite: columns.
RunSqliteColumns ==
    Asks(1, {"SqliteColumnCount"})
    @@ Asks(2, {"SqliteColumnInt", "SqliteColumnInt64", "SqliteColumnDouble",
                "SqliteColumnText", "SqliteColumnBlob", "SqliteColumnType"})

\* SQLite: rows and transactions.
RunSqliteState ==
    Asks(1, {"SqliteChanges", "SqliteLastInsertRowid", "SqliteErrmsg",
             "SqliteBegin", "SqliteCommit", "SqliteRollback"})
    @@ Asks(2, {"SqliteColumnName", "SqliteIsNull"})

\* SQLite: savepoints.
RunSqliteSavepoints ==
    Asks(2, {"SqliteSavepoint", "SqliteReleaseSavepoint",
             "SqliteRollbackToSavepoint"})

\* PostgreSQL: queries.
RunPg ==
    Asks(1, {"PgConnect", "PgDisconnect", "PgStatus"})
    @@ Asks(2, {"PgQuery", "PgExecute"})
    @@ Asks(3, {"PgPrepare"})

\* PostgreSQL: results.
RunPgResults ==
    Asks(1, {"PgRowCount", "PgColumnCount"})
    @@ Asks(2, {"PgExecutePrepared", "PgColumnName", "PgColumnType"})

\* PostgreSQL: values.
RunPgValues ==
    Asks(3, {"PgGetValue", "PgGetInt", "PgGetInt64", "PgGetDouble", "PgGetText"})

\* PostgreSQL: bytes, booleans and nulls.
RunPgOtherValues ==
    Asks(1, {"PgAffectedRows"})
    @@ Asks(3, {"PgGetBytes", "PgGetBool", "PgIsNull"})

\* PostgreSQL: transactions.
RunPgTransactions ==
    Asks(1, {"PgBegin", "PgCommit", "PgRollback", "PgErrmsg"})
    @@ Asks(2, {"PgSavepoint", "PgReleaseSavepoint", "PgRollbackToSavepoint"})

\* PostgreSQL: escaping, and results freed.
RunPgTexts ==
    Asks(1, {"PgFreeResult"})
    @@ Asks(2, {"PgEscape"})

\* PostgreSQL: asynchronous commands.
RunPgAsync ==
    Asks(1, {"PgConnectAsync", "PgDisconnectAsync", "PgStatusAsync"})
    @@ Asks(2, {"PgQueryAsync", "PgExecuteAsync"})
    @@ Asks(3, {"PgPrepareAsync"})

\* PostgreSQL: their results.
RunPgAsyncResults ==
    Asks(1, {"PgIsReady", "PgGetAsyncResult", "PgCancelAsync", "PgBeginAsync",
             "PgCommitAsync", "PgRollbackAsync"})
    @@ Asks(2, {"PgExecutePreparedAsync"})

\* Pools of SQLite connections.
RunSqlitePool ==
    Asks(1, {"SqlitePoolClose", "SqlitePoolAcquire"})
    @@ Asks(2, {"SqlitePoolRelease"})
    @@ Asks(7, {"SqlitePoolCreate"})
    @@ Gives(1, 4, {"SqlitePoolStats"})

\* Pools of PostgreSQL connections.
RunPgPool ==
    Asks(1, {"PgPoolClose", "PgPoolAcquire"})
    @@ Asks(2, {"PgPoolRelease"})
    @@ Asks(7, {"PgPoolCreate"})
    @@ Gives(1, 4, {"PgPoolStats"})

\* Transaction scopes on SQLite.
RunSqliteScopes ==
    Asks(1, {"SqliteTxScopeBegin", "SqliteTxDepth", "SqliteTxActive"})
    @@ Asks(3, {"SqliteTxScopeEnd"})

\* Transaction scopes on PostgreSQL.
RunPgScopes ==
    Asks(1, {"PgTxScopeBegin", "PgTxDepth", "PgTxActive"})
    @@ Asks(3, {"PgTxScopeEnd"})

-----------------------------------------------------------------------------
(* All of them.                                                           *)

\* What the host may refuse.
HostOps ==
    RunFiles @@ RunDirectories @@ RunConsole @@ RunHttpHost @@ RunClocks

\* What needs a host.
DbOps ==
    RunSqlite @@ RunSqliteBinds @@ RunSqliteColumns @@ RunSqliteState
    @@ RunSqliteSavepoints @@ RunPg @@ RunPgResults @@ RunPgValues
    @@ RunPgOtherValues @@ RunPgTransactions @@ RunPgTexts @@ RunPgAsync
    @@ RunPgAsyncResults @@ RunSqlitePool @@ RunPgPool @@ RunSqliteScopes
    @@ RunPgScopes

\* The effect of every opcode.
Effect ==
    RunPrintStr @@ RunPrints @@ RunClosures @@ RunRegions @@ RunHandlers
    @@ RunException @@ RunBranches @@ RunTasks @@ RunExtern @@ RunGeneric
    @@ RunArithmetic @@ RunDivision @@ RunComparisons @@ RunLists @@ RunMaps
    @@ RunStrings @@ RunStringEdits @@ RunStringNumbers @@ RunOptionals
    @@ RunStructs @@ RunEnums @@ RunJson @@ RunJsonFields @@ RunSharedCells
    @@ RunMath @@ RunCasts @@ RunWideCasts @@ RunOtherCasts @@ RunDecimals
    @@ RunDecimalViews @@ RunBigInts @@ RunExecutor @@ RunChannels
    @@ RunChannelTasks @@ RunSelect @@ RunActors @@ RunActorState @@ RunAtomics
    @@ RunAtomicAliases @@ RunEventLoop @@ RunPipes @@ RunTimers @@ RunTcp
    @@ RunTcpStreams @@ RunTcpRequests @@ RunHttpClient @@ RunHttpRequests
    @@ RunHttpServer @@ RunHttpExchange @@ RunHttpReplies @@ HostOps @@ DbOps

==============================================================================
