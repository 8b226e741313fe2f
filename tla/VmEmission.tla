----------------------------- MODULE VmEmission -----------------------------
(***************************************************************************)
(* The opcodes that compile_ir_to_program (driver/vm.rs) emits for each    *)
(* instruction of the intermediate representation, by name.  An intrinsic  *)
(* function is named after its opcode, or after itself when it borrows the *)
(* opcode of another.  Every value lives in a local: "arg" pushes a local  *)
(* or a constant, "set" is LocalSet and "drop" is Pop; the rest are the    *)
(* opcodes of VmEffects and the calls.                                     *)
(***************************************************************************)
EXTENDS Sequences, Integers, TLC

\* push_value for each of n arguments.
Args(n) == [i \in 1 .. n |-> "arg"]

\* The usual form: the arguments, the opcode, and its answer to a local.
Emits(n, ops) == [o \in ops |-> Args(n) \o <<o, "set">>]

-----------------------------------------------------------------------------
(* Instructions of the intermediate representation.                       *)

\* Constants and copies.  A string constant has no code.
EmitValues ==
    [i \in {"Const", "Copy"} |-> <<"arg", "set">>] @@ ("ConstStr" :> <<>>)

\* Numbers.
EmitArithmetic ==
    Emits(2, {"AddI64", "SubI64", "MulI64", "DivI64", "ModI64", "ShlI64", "ShrI64",
              "AndI64", "OrI64", "XorI64"})

\* Comparisons: less, equal, and their negations.
EmitComparisons ==
    Emits(2, {"EqI64", "LtI64"})
    @@ ("Le" :> Args(2) \o <<"LtI64", "arg", "EqI64", "set">>)
    @@ ("Ne" :> Args(2) \o <<"EqI64", "arg", "EqI64", "set">>)

\* Text.
EmitTexts == Emits(2, {"EqStr", "ConcatStr"})

\* Cells of the stack frame.
EmitLocals == [i \in {"Load", "Store"} |-> <<"arg", "set">>] @@ ("Alloca" :> <<>>)

\* A provider with a plain and a shared field.
EmitProviderNew ==
    "ProviderNew" :> Args(2) \o <<"StructNew", "set">>
                     \o Args(4) \o <<"StructSet", "drop">>
                     \o Args(2) \o <<"SharedNew", "arg", "StructSet", "drop">>
                     \o Args(2) \o <<"StructGet", "arg", "SharedStore", "drop">>
                     \o <<"arg", "set">>

\* Fields of providers: by name of the program's state, shared, or plain.
EmitProviderFields ==
    ("GetState" :> <<"SharedGetByName", "SharedLoad", "set">>)
    @@ ("GetShared" :> Args(2) \o <<"StructGetNamed", "SharedLoad", "set">>)
    @@ ("GetPlain" :> Args(2) \o <<"StructGetNamed", "set">>)
    @@ ("SetState" :> <<"SharedGetByName", "arg", "SharedStore", "drop">>)
    @@ ("SetShared" :> Args(2) \o <<"StructGetNamed", "arg", "SharedStore", "drop">>)
    @@ ("SetPlain" :> Args(4) \o <<"StructSet", "drop">>)

\* A task with one argument, the end of a catch clause, and calls of the
\* embedding program.
EmitTasks ==
    ("TaskSpawn" :> Args(2) \o <<"TaskSpawn", "set">>
                    \o Args(2) \o <<"TaskPushArg", "drop">>)
    @@ ("EndCatch" :> <<"arg", "set">>)
    @@ Emits(1, {"HostCallGeneric"})

\* The exception caught, and handlers.
EmitHandlers ==
    ("LandingPad" :> <<"GetException", "set">>)
    @@ [i \in {"SetUnwindHandler", "ClearUnwindHandler"} |-> <<i>>]

\* A closure with one captured value.
EmitMakeClosure ==
    "MakeClosure" :> <<"ClosureNew", "set">> \o Args(2) \o <<"ClosureCapture", "drop">>

\* Regions, type names, C functions, and what only the native backend has.
EmitRegionEnter == "RegionEnter" :> <<"RegionEnter", "arg", "set">>
EmitTypeName == Emits(1, {"StructTypeName"})
EmitExtern == Emits(2, {"ExternCall"})
EmitNativeOnly == "NativeOnly" :> <<"arg", "set">>

\* Branches, the switch with one case; without phi nodes.
EmitBranches ==
    ("CondBr" :> <<"arg", "JumpIfFalse">>)
    @@ ("Switch" :> Args(2) \o <<"EqI64", "JumpIfFalse">>)

-----------------------------------------------------------------------------
(* Intrinsic functions.                                                   *)

\* Casts.
EmitCasts ==
    Emits(1, {"ToF64", "ToI64OrEnumTag", "ToBool", "ToChar", "ToI8", "ToI16",
              "ToI32", "ToU8", "ToU16", "ToU32", "ToU64", "ToF32"})

\* Shared cells.
EmitSharedCells ==
    Emits(0, {"SharedNew"})
    @@ Emits(1, {"SharedLoad"})
    @@ Emits(2, {"SharedStore"})
    @@ ("SharedGetByName" :> <<"SharedGetByName", "set">>)

\* The executor.
EmitExecutor ==
    Emits(0, {"ExecutorThreadCount", "ExecutorActiveWorkers",
              "ExecutorActiveExecutorCount", "ExecutorResetStats"})
    @@ Emits(1, {"ExecutorInit", "ExecutorSpawn", "ExecutorJoin",
                 "ExecutorWorkerTaskCount"})
    @@ Emits(2, {"ExecutorSpawnWithArg"})
    @@ Emits(3, {"ExecutorSpawnAwait"})

\* Channels: messages and state.
EmitChannels ==
    Emits(1, {"MpmcChanCreate", "MpmcChanRecv", "MpmcChanRecvBlocking",
              "MpmcChanClose", "MpmcChanLen", "MpmcChanIsEmpty", "MpmcChanIsFull",
              "MpmcChanIsClosed"})
    @@ Emits(2, {"MpmcChanSend", "MpmcChanSendBlocking"})

\* Channels: tasks that wait.
EmitChannelTasks ==
    Emits(0, {"MpmcChanGetWaitingSenderValue"})
    @@ Emits(1, {"MpmcChanCapacity", "MpmcChanRecvAndWake",
                 "MpmcChanPopWaitingSender", "MpmcChanPopWaitingReceiver",
                 "MpmcChanWaitingSenderCount", "MpmcChanWaitingReceiverCount"})
    @@ Emits(2, {"MpmcChanRecvWithTask"})
    @@ Emits(3, {"MpmcChanSendWithTask"})

\* Channels: tasks that were woken, and select.
EmitSelect ==
    Emits(0, {"MpmcChanGetWokenSender", "MpmcChanGetWokenReceiver",
              "MpmcChanSelectCount", "MpmcChanTrySelectRecv",
              "MpmcChanSelectRecvBlocking", "MpmcChanSelectGetReadyIndex",
              "MpmcChanSelectGetValue"})
    @@ Emits(1, {"MpmcChanSelectAdd", "MpmcChanSelectRecvWithTask",
                 "MpmcChanSelectGetHandle"})
    @@ Emits(2, {"MpmcChanSendAndWake"})
    @@ ("SelectClear" :> <<"MpmcChanSelectClear", "arg", "set">>)
    @@ ("SelectDeregister" :> Args(2) \o <<"MpmcChanSelectDeregister", "arg", "set">>)

\* Actors.
EmitActors ==
    Emits(1, {"ActorCreate", "ActorRecv", "ActorRecvBlocking", "ActorClose",
              "ActorStop", "ActorGetTask"})
    @@ Emits(2, {"ActorSpawn", "ActorSend", "ActorSendBlocking"})

\* The state of actors.
EmitActorState ==
    Emits(1, {"ActorGetMailbox", "ActorIsRunning", "ActorGetState",
              "ActorMessageCount", "ActorMailboxEmpty", "ActorMailboxLen",
              "ActorMarkStopped", "ActorMarkFailed", "ActorIsFailed"})
    @@ Emits(2, {"ActorSetTask"})

\* Atomic cells.
EmitAtomics ==
    Emits(1, {"AtomicCreate", "AtomicLoad"})
    @@ Emits(2, {"AtomicStore", "AtomicFetchAdd", "AtomicFetchSub", "AtomicSwap"})
    @@ Emits(3, {"AtomicCas"})

\* Further operations on atomic cells.
EmitAtomicAliases ==
    Emits(1, {"AtomicGet", "AtomicInc", "AtomicDec"})
    @@ Emits(2, {"AtomicSet"})

\* Event loops.
EmitEventLoop ==
    Emits(0, {"EventLoopCreate", "EventLoopPipeCreate", "EventLoopPipeGetWriteFd"})
    @@ Emits(1, {"EventLoopGetEvent", "EventLoopGetEventType", "EventLoopClose"})
    @@ Emits(2, {"EventLoopRegisterTimer", "EventLoopDeregister", "EventLoopPoll"})
    @@ Emits(3, {"EventLoopRegisterFd"})

\* Pipes.
EmitPipes ==
    Emits(1, {"EventLoopPipeRead", "EventLoopPipeClose"})
    @@ Emits(2, {"EventLoopPipeWrite"})

\* Timers.
EmitTimers ==
    Emits(0, {"TimerPollExpired", "TimerNow"})
    @@ Emits(1, {"TimerSleep", "TimerCheckExpired", "TimerGetWaitingTask",
                 "TimerCancel", "TimerElapsed", "TimerRemove", "TimerRemaining"})
    @@ Emits(2, {"TimerSleepAsync"})
    @@ ("Yield" :> <<"arg", "TimerSleep", "set">>)
    @@ ("CheckCancelled" :> <<"arg", "set">>)

\* Listeners, and connecting.
EmitTcp ==
    Emits(1, {"TcpListenerBind", "TcpListenerAccept", "TcpListenerClose",
              "TcpListenerLocalPort"})
    @@ Emits(2, {"TcpListenerAcceptAsync", "TcpStreamConnect"})
    @@ Emits(3, {"TcpStreamConnectAsync"})

\* TCP streams.
EmitTcpStreams ==
    Emits(0, {"TcpStreamGetLastRead"})
    @@ Emits(1, {"TcpStreamClose"})
    @@ Emits(2, {"TcpStreamRead", "TcpStreamWrite", "TcpStreamSetTimeout"})
    @@ Emits(3, {"TcpStreamReadAsync", "TcpStreamWriteAsync"})

\* Requests of the TCP operations.
EmitTcpRequests ==
    Emits(0, {"TcpPollReady"})
    @@ Emits(1, {"TcpCheckReady", "TcpGetResult", "TcpRemoveRequest"})
    @@ ("TcpGetWaitingTask" :> <<"arg", "TcpGetResult", "set">>)

\* HTTP requests and responses.
EmitHttpClient ==
    Emits(1, {"HttpResponseStatus", "HttpResponseBody"})
    @@ Emits(2, {"HttpGet", "HttpResponseHeader"})
    @@ Emits(3, {"HttpPost", "HttpGetAsync"})
    @@ Emits(4, {"HttpPostAsync"})

\* Asynchronous HTTP requests.
EmitHttpRequests ==
    Emits(0, {"HttpPollReady"})
    @@ Emits(1, {"HttpResponseClose", "HttpCheckReady", "HttpGetResult",
                 "HttpRemoveRequest", "HttpGetBodyLength", "HttpGetHeaderCount"})
    @@ ("HttpGetWaitingTask" :> <<"arg", "HttpGetResult", "set">>)
    @@ ("HttpGetLastHeader" :> <<"HttpPollReady", "set">>)
    @@ ("HttpGetLastBody" :> <<"HttpPollReady", "set">>)

\* HTTP servers.
EmitHttpServer ==
    Emits(1, {"HttpServerCreate", "HttpServerClose", "HttpServerGetPort",
              "HttpServerAccept"})
    @@ Emits(2, {"HttpServerAcceptAsync"})

\* HTTP requests received and their answers.
EmitHttpExchange ==
    Emits(1, {"HttpRequestMethod", "HttpRequestPath", "HttpRequestBody",
              "HttpRequestHeaderCount", "HttpRequestBodyLength"})
    @@ Emits(2, {"HttpRequestHeader", "HttpWriterStatus", "HttpWriterBody"})
    @@ Emits(3, {"HttpWriterHeader"})

\* Sending the answers.
EmitHttpReplies ==
    Emits(0, {"HttpServerPollReady"})
    @@ Emits(1, {"HttpWriterSend", "HttpServerCheckReady", "HttpServerGetResult",
                 "HttpServerRemoveRequest"})
    @@ Emits(2, {"HttpWriterSendAsync"})
    @@ ("HttpServerGetWaitingTask" :> <<"arg", "HttpServerGetResult", "set">>)

\* Printing, which stores nothing.
EmitPrints ==
    ("Print" :> <<"Print">>)
    @@ ("PrintTop" :> <<"arg", "PrintTop">>)
    @@ ("PrintStrVal" :> <<"arg", "PrintStrVal">>)
    @@ ("PrintRaw" :> <<"PrintRaw">>)
    @@ ("PrintRawStrVal" :> <<"arg", "PrintRawStrVal">>)

\* Mathematics.
EmitMath ==
    Emits(1, {"SqrtF64", "SinF64", "CosF64", "TanF64", "FloorF64", "CeilF64",
              "RoundF64"})
    @@ Emits(2, {"PowF64"})

\* Lists.
EmitLists ==
    Emits(0, {"ListNew"})
    @@ Emits(1, {"ListLen", "ListSort"})
    @@ Emits(2, {"ListPush", "ListGet", "ListRemove"})
    @@ Emits(3, {"ListSet"})

\* Mutant: the map is not pushed again when an entry is put.
Mut_EmitMaps ==
    Emits(0, {"MapNew"})
    @@ Emits(1, {"MapLen"})
    @@ Emits(2, {"MapGet", "MapContainsKey", "MapPut"})

\* Maps.
EmitMaps ==
    Emits(0, {"MapNew"})
    @@ Emits(1, {"MapLen"})
    @@ Emits(2, {"MapGet", "MapContainsKey"})
    @@ Emits(3, {"MapPut"})

\* Maps as a whole.
EmitMapContents ==
    Emits(1, {"MapKeys"})
    @@ Emits(2, {"MapRemove", "MapMerge"})

\* Strings: search.
EmitStrings ==
    Emits(1, {"StrLen"})
    @@ Emits(2, {"StrIndexOf", "StrLastIndexOf", "StrStartsWith", "StrEndsWith",
                 "StrSplit"})
    @@ Emits(3, {"StrSubstring"})

\* Strings: new strings.
EmitStringEdits ==
    Emits(1, {"StrTrim", "StrToLower", "StrToUpper"})
    @@ Emits(2, {"StrCharAt", "StrContains", "StrRepeat"})
    @@ Emits(3, {"StrReplace"})

\* Strings and numbers.
EmitStringNumbers ==
    Emits(1, {"StrParseInt", "StrParseFloat", "StrFromInt", "StrFromFloat"})

\* Optional values.
EmitOptionals ==
    Emits(0, {"OptNone"})
    @@ Emits(1, {"OptSome", "OptIsSome", "OptUnwrap"})
    @@ Emits(2, {"OptOrElse"})
    @@ ("OptIsNone" :> <<"arg", "OptIsSome", "arg", "EqI64", "set">>)

\* Structs.
EmitStructs ==
    Emits(2, {"StructNew", "StructGet", "StructGetNamed"})
    @@ Emits(3, {"StructSetNamed"})
    @@ Emits(4, {"StructSet"})

\* Copies of structs, and enums.
EmitEnums ==
    Emits(1, {"EnumGetTag"})
    @@ Emits(2, {"StructCopy", "EnumGetPayload"})
    @@ Emits(3, {"EnumSetPayload"})
    @@ Emits(4, {"EnumNew"})

\* The HTTP services of the host.
EmitHttpHost ==
    Emits(1, {"HttpServe", "HttpFetch", "HttpAccept"})
    @@ ("HttpRespond" :> Args(4) \o <<"HttpRespond", "drop">>)

\* JSON texts.
EmitJson ==
    Emits(1, {"JsonStringify", "JsonParse"})
    @@ Emits(2, {"StructToJson", "JsonToStruct"})

\* JSON values.
EmitJsonFields ==
    Emits(1, {"JsonGetString", "JsonGetNumber", "JsonGetBool", "JsonIsNull"})
    @@ Emits(2, {"JsonGetField", "JsonGetIndex"})

\* JSON objects and arrays.
EmitJsonTests ==
    Emits(1, {"JsonIsObject", "JsonIsArray", "JsonArrayLen", "JsonKeys"})

\* Logging, which stores nothing.
EmitLogs ==
    ("LogEmit" :> <<"Print">>)
    @@ ("LogEmitVal" :> <<"PrintRaw", "arg", "PrintRawStrVal", "PrintLn">>)

\* Files.
EmitFiles ==
    Emits(1, {"FileClose", "FileFlush", "FileSize"})
    @@ Emits(2, {"FileOpen", "FileRead", "FileWriteStr"})
    @@ Emits(3, {"FileSeek"})

\* Files by name.
EmitFileNames ==
    Emits(1, {"FileExists", "FileDelete"})
    @@ Emits(2, {"FileCopy", "FileMove"})

\* Directories and paths.
EmitDirectories ==
    Emits(1, {"DirCreate", "DirCreateAll", "DirDelete", "DirList", "DirExists",
              "IsDir", "IsFile", "PathAbsolute"})

\* The console.
EmitConsole ==
    Emits(0, {"ConsoleReadLine"})
    @@ Emits(1, {"ConsoleWrite", "ConsoleWriteErr"})
    @@ ("ConsoleWriteLn" :> <<"arg", "PrintTop", "PrintLn", "arg", "set">>)

\* Clocks.
EmitClocks ==
    Emits(0, {"DateTimeNow", "InstantNow"})
    @@ Emits(1, {"InstantElapsed"})
    @@ Emits(2, {"DateTimeParse", "DateTimeFormat"})

\* SQLite: statements.
EmitSqlite ==
    Emits(1, {"SqliteOpen", "SqliteClose", "SqliteStep", "SqliteFinalize",
              "SqliteReset"})
    @@ Emits(2, {"SqlitePrepare"})
    @@ Emits(3, {"SqliteBindInt", "SqliteBindInt64", "SqliteBindDouble"})

\* SQLite: values.
EmitSqliteValues ==
    Emits(2, {"SqliteBindNull", "SqliteColumnInt", "SqliteColumnInt64",
              "SqliteColumnDouble", "SqliteColumnText", "SqliteColumnBlob",
              "SqliteColumnType"})
    @@ Emits(3, {"SqliteBindText", "SqliteBindBlob"})

\* SQLite: rows and transactions.
EmitSqliteState ==
    Emits(1, {"SqliteColumnCount", "SqliteChanges", "SqliteLastInsertRowid",
              "SqliteErrmsg", "SqliteBegin", "SqliteCommit", "SqliteRollback"})
    @@ Emits(2, {"SqliteColumnName", "SqliteIsNull"})

\* SQLite: savepoints.
EmitSqliteSavepoints ==
    Emits(2, {"SqliteSavepoint", "SqliteReleaseSavepoint",
              "SqliteRollbackToSavepoint"})

\* PostgreSQL: queries.
EmitPg ==
    Emits(1, {"PgConnect", "PgDisconnect", "PgStatus", "PgRowCount",
              "PgColumnCount"})
    @@ Emits(2, {"PgQuery", "PgExecute", "PgExecutePrepared"})
    @@ Emits(3, {"PgPrepare"})

\* PostgreSQL: values.
EmitPgValues ==
    Emits(2, {"PgColumnName", "PgColumnType"})
    @@ Emits(3, {"PgGetValue", "PgGetInt", "PgGetInt64", "PgGetDouble", "PgGetText",
                 "PgGetBytes", "PgGetBool"})

\* PostgreSQL: transactions.
EmitPgState ==
    Emits(1, {"PgAffectedRows", "PgBegin", "PgCommit", "PgRollback", "PgErrmsg"})
    @@ Emits(2, {"PgSavepoint", "PgReleaseSavepoint", "PgRollbackToSavepoint",
                 "PgEscape"})
    @@ Emits(3, {"PgIsNull"})

\* PostgreSQL: asynchronous commands.
EmitPgAsync ==
    Emits(1, {"PgFreeResult", "PgConnectAsync", "PgDisconnectAsync",
              "PgStatusAsync"})
    @@ Emits(2, {"PgQueryAsync", "PgExecuteAsync"})
    @@ Emits(3, {"PgPrepareAsync"})

\* PostgreSQL: their results.
EmitPgAsyncResults ==
    Emits(1, {"PgIsReady", "PgGetAsyncResult", "PgCancelAsync", "PgBeginAsync",
              "PgCommitAsync", "PgRollbackAsync"})
    @@ Emits(2, {"PgExecutePreparedAsync"})

\* Pools of SQLite connections.
EmitSqlitePool ==
    Emits(1, {"SqlitePoolClose", "SqlitePoolAcquire", "SqlitePoolStats"})
    @@ Emits(2, {"SqlitePoolRelease"})
    @@ Emits(7, {"SqlitePoolCreate"})

\* Pools of PostgreSQL connections.
EmitPgPool ==
    Emits(1, {"PgPoolClose", "PgPoolAcquire", "PgPoolStats"})
    @@ Emits(2, {"PgPoolRelease"})
    @@ Emits(7, {"PgPoolCreate"})

\* Transaction scopes on SQLite.
EmitSqliteScopes ==
    Emits(1, {"SqliteTxScopeBegin", "SqliteTxDepth", "SqliteTxActive"})
    @@ Emits(3, {"SqliteTxScopeEnd"})

\* Transaction scopes on PostgreSQL.
EmitPgScopes ==
    Emits(1, {"PgTxScopeBegin", "PgTxDepth", "PgTxActive"})
    @@ Emits(3, {"PgTxScopeEnd"})

\* Decimal numbers.
EmitDecimals ==
    Emits(1, {"BigDecimalNew", "BigDecimalFromInt", "BigDecimalFromFloat"})
    @@ Emits(2, {"BigDecimalAdd", "BigDecimalSub", "BigDecimalMul"})
    @@ Emits(3, {"BigDecimalDiv"})

\* Decimal numbers as other values.
EmitDecimalViews ==
    Emits(1, {"BigDecimalNegate", "BigDecimalToString", "BigDecimalToInt",
              "BigDecimalToFloat", "BigDecimalScale"})
    @@ Emits(2, {"BigDecimalRem", "BigDecimalPow", "BigDecimalCompare"})

\* The scale of decimal numbers.
EmitDecimalScales ==
    Emits(3, {"BigDecimalSetScale", "BigDecimalRound"})

\* Large integers.
EmitBigInts ==
    Emits(1, {"BigIntNew", "BigIntFromInt"})
    @@ Emits(2, {"BigIntAdd", "BigIntSub", "BigIntMul", "BigIntDiv", "BigIntRem"})

\* Large integers as other values.
EmitBigIntViews ==
    Emits(1, {"BigIntNegate", "BigIntToString", "BigIntToInt"})
    @@ Emits(2, {"BigIntPow", "BigIntCompare"})

-----------------------------------------------------------------------------
(* Calls and returns.                                                     *)

\* Calls of a function with n parameters: stored, or dropped after an invoke
\* without a result.
EmitCall(n) == Args(n) \o <<"Call", "set">>
EmitInvoke(n) == {Args(n) \o <<"Call", "set">>, Args(n) \o <<"Call", "drop">>}

\* A closure is called with its handle on top of its arguments.
EmitClosureCall(n) == Args(n + 1) \o <<"ClosureCall", "set">>

\* Destructors, which return nothing: of a local, of one that was not moved, of
\* a field, and of a value of a region.
EmitDrop == <<"arg", "Call", "arg", "set">>
EmitCondDrop == Args(2) \o <<"EqI64", "JumpIfFalse", "arg", "Call", "arg", "set">>
EmitFieldDrop == <<"arg", "Call", "drop", "arg", "set">>
EmitRegionExit == {<<"RegionExit", "arg", "set">>,
                   <<"arg", "Call", "drop", "RegionExit", "arg", "set">>}

\* Waiting for a task.
EmitAwait == <<"arg", "TaskAwait", "set">>

\* Ends of a function.
EmitRet(void) == IF void THEN <<"Ret">> ELSE <<"arg", "Ret">>
EmitThrow == <<"arg", "Throw">>
EmitPanic == <<"Panic">>

-----------------------------------------------------------------------------
(* All instructions without a call.                                       *)

\* The code of every instruction.
Lowered ==
    EmitValues @@ EmitArithmetic @@ EmitComparisons @@ EmitTexts @@ EmitLocals
    @@ EmitProviderNew @@ EmitProviderFields @@ EmitTasks @@ EmitHandlers
    @@ EmitMakeClosure @@ EmitRegionEnter @@ EmitTypeName @@ EmitExtern
    @@ EmitNativeOnly @@ EmitBranches @@ EmitCasts @@ EmitSharedCells
    @@ EmitExecutor @@ EmitChannels @@ EmitChannelTasks @@ EmitSelect @@ EmitActors
    @@ EmitActorState @@ EmitAtomics @@ EmitAtomicAliases @@ EmitEventLoop
    @@ EmitPipes @@ EmitTimers @@ EmitTcp @@ EmitTcpStreams @@ EmitTcpRequests
    @@ EmitHttpClient @@ EmitHttpRequests @@ EmitHttpServer @@ EmitHttpExchange
    @@ EmitHttpReplies @@ EmitPrints @@ EmitMath @@ EmitLists @@ EmitMaps
    @@ EmitMapContents @@ EmitStrings @@ EmitStringEdits @@ EmitStringNumbers
    @@ EmitOptionals @@ EmitStructs @@ EmitEnums @@ EmitHttpHost @@ EmitJson
    @@ EmitJsonFields @@ EmitJsonTests @@ EmitLogs @@ EmitFiles @@ EmitFileNames
    @@ EmitDirectories @@ EmitConsole @@ EmitClocks @@ EmitSqlite
    @@ EmitSqliteValues @@ EmitSqliteState @@ EmitSqliteSavepoints @@ EmitPg
    @@ EmitPgValues @@ EmitPgState @@ EmitPgAsync @@ EmitPgAsyncResults
    @@ EmitSqlitePool @@ EmitPgPool @@ EmitSqliteScopes @@ EmitPgScopes
    @@ EmitDecimals @@ EmitDecimalViews @@ EmitDecimalScales @@ EmitBigInts
    @@ EmitBigIntViews

==============================================================================
