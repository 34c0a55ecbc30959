------------------------------ MODULE Consensus ------------------------------
(***************************************************************************)
(* The way of a transaction to the consensus nodes: HAPIService, which     *)
(* renews its SDK client, SDKClient, which stores long call data in a file *)
(* of the network first, and MetricService, which reads what each          *)
(* transaction cost the operator and adds it to the expenses.  What a      *)
(* submission of one call did may be reported, deleted and recorded while  *)
(* other calls go on, on another client.                                   *)
(***************************************************************************)
EXTENDS Integers, FiniteSets

CONSTANTS
    Calls,              \* calls of TransactionService.submitTransaction
    CallData,           \* call -> length of its call data
    ChunkSize,          \* FILE_APPEND_CHUNK_SIZE
    MaxChunks,          \* FILE_APPEND_MAX_CHUNKS
    JumboEnabled,       \* JUMBO_TX_ENABLED
    TransactionReset,   \* HAPI_CLIENT_TRANSACTION_RESET, 0: never for their number
    ErrorReset,         \* HAPI_CLIENT_ERROR_RESET: the statuses that renew the client
    DurationReset,      \* HAPI_CLIENT_DURATION_RESET is set
    Statuses,           \* statuses of failures
    MaxFaults,          \* bound of what goes wrong
    MaxOverdue          \* bound of the times a client grows too old

ASSUME ConsensusAssumption ==
    /\ ChunkSize \in Nat \ {0} /\ MaxChunks \in Nat /\ TransactionReset \in Nat /\ MaxFaults \in Nat /\ MaxOverdue \in Nat
    /\ CallData \in [Calls -> Nat]
    /\ ErrorReset \subseteq Statuses /\ "none" \notin Statuses
    /\ JumboEnabled \in BOOLEAN /\ DurationReset \in BOOLEAN

VARIABLES
    collector,  \* where MetricService reads records (GET_RECORD_DEFAULT_TO_CONSENSUS_NODE)
    hapi,       \* HAPIService: transactionCount, shouldReset, whether resetDuration has passed
    calls,      \* call -> where it is in submitTransaction
    deletions,  \* call -> where deleteFile of its file is
    files,      \* calls whose file is on the network
    charged,    \* what the network charged the operator: [call, of, n, record], for a transaction or for reading its record
    events,     \* execute_transaction and execute_query events not handled yet
    recorded,   \* charges added to the expenses
    unread,     \* charges whose record could not be read
    rejected,   \* charges addExpense refused, or did not get to after it refused one
    served,     \* operations the current client was handed out for
    overtime,   \* those of them after it was too old
    reported,   \* a status of ErrorReset was reported since the current client was made
    unheeded,   \* operations it was handed out for after that
    faults,     \* what went wrong
    overdues    \* times a client grew too old

vars == <<collector, hapi, calls, deletions, files, charged, events, recorded, unread, rejected, served, overtime, reported,
          unheeded, faults, overdues>>

clientVars == <<hapi, served, overtime, reported, unheeded>>
chargeVars == <<charged, events, recorded, unread, rejected>>

-----------------------------------------------------------------------------
(* HAPIService. *)

IsReinitEnabled == TransactionReset # 0 \/ ErrorReset # {} \/ DurationReset

Init ==
    /\ collector \in {"consensus", "mirror"}
    /\ hapi = [transactionCount |-> TransactionReset, shouldReset |-> FALSE, overdue |-> FALSE]
    /\ calls = [c \in Calls |-> [pc |-> "rate", file |-> FALSE, submitted |-> FALSE, error |-> "none"]]
    /\ deletions = [c \in Calls |-> "none"]
    /\ files = {} /\ charged = {} /\ events = {} /\ recorded = {} /\ unread = {} /\ rejected = {}
    /\ served = 0 /\ overtime = 0 /\ reported = FALSE /\ unheeded = 0 /\ faults = 0 /\ overdues = 0

DecrementTransactionCounter(h) ==
    IF h.transactionCount = 0 THEN h
    ELSE [h EXCEPT !.transactionCount = @ - 1, !.shouldReset = @ \/ h.transactionCount = 1]

ForgetError(h, status) == h

DecrementErrorCounter(h, status) ==
    [h EXCEPT !.shouldReset = @ \/ (IsReinitEnabled /\ status \in ErrorReset)]

CheckResetDuration(h) == [h EXCEPT !.shouldReset = @ \/ h.overdue]

ResetClient(h) == [transactionCount |-> TransactionReset, shouldReset |-> FALSE, overdue |-> FALSE]

(* getSDKClient renews the client before it counts the operation it is asked for. *)
Renews == IsReinitEnabled /\ hapi.shouldReset

GetSDKClient ==
    LET h == IF Renews THEN ResetClient(hapi) ELSE hapi
    IN  /\ hapi' = IF IsReinitEnabled THEN CheckResetDuration(DecrementTransactionCounter(h)) ELSE hapi
        /\ served' = (IF Renews THEN 0 ELSE served) + 1
        /\ overtime' = IF Renews THEN 0 ELSE IF hapi.overdue THEN overtime + 1 ELSE overtime
        /\ reported' = (reported /\ ~Renews)
        /\ unheeded' = IF Renews THEN 0 ELSE IF reported THEN unheeded + 1 ELSE unheeded

(* resetDuration passes. *)
Overdue ==
    /\ DurationReset /\ ~hapi.overdue /\ overdues < MaxOverdue
    /\ hapi' = [hapi EXCEPT !.overdue = TRUE]
    /\ overdues' = overdues + 1
    /\ UNCHANGED <<calls, deletions, files, chargeVars, served, overtime, reported, unheeded, faults>>

-----------------------------------------------------------------------------
(* What may come of a transaction: it reaches consensus and is charged, its effect happens, its response comes back (and   *)
(* with it the transaction id), its receipt says that it succeeded.                                                        *)
Success == [taken |-> TRUE, works |-> TRUE, responded |-> TRUE, ok |-> TRUE]

Failures ==
    {[taken |-> TRUE, works |-> w, responded |-> r, ok |-> FALSE] : w \in BOOLEAN, r \in BOOLEAN}
        \cup {[taken |-> FALSE, works |-> FALSE, responded |-> FALSE, ok |-> FALSE]}

MayFail == faults < MaxFaults

Outcomes == {Success} \cup (IF MayFail THEN Failures ELSE {})

Faulty(bad) == faults' = IF bad THEN faults + 1 ELSE faults

Charge(c, of) == [call |-> c, of |-> of, n |-> 1, record |-> FALSE]

(* executeTransaction: the event is emitted when there is a transaction id, whatever the receipt says. *)
ExecuteTransaction(charge, o) ==
    /\ charged' = IF o.taken THEN charged \cup {charge} ELSE charged
    /\ events' = IF o.responded THEN events \cup {charge} ELSE events
    /\ Faulty(o # Success)
    /\ UNCHANGED <<recorded, unread, rejected>>

(* executeQuery: a query that was paid for emits its event, whether it succeeds or not. *)
ExecuteQuery(charge, paid, ok) ==
    /\ ok \/ MayFail
    /\ ok => paid
    /\ charged' = IF paid THEN charged \cup {charge} ELSE charged
    /\ events' = IF paid THEN events \cup {charge} ELSE events
    /\ Faulty(~ok)
    /\ UNCHANGED <<recorded, unread, rejected>>

Moves(c, pc) == calls' = [calls EXCEPT ![c].pc = pc]

(* An SDKClientError has a status, a JsonRpcError and an error of the SDK itself have none. *)
Throws(c, error) == calls' = [calls EXCEPT ![c].pc = "failed", ![c].error = error]

-----------------------------------------------------------------------------
(* TransactionService.submitTransaction: the exchange rate is read before the client is asked for. *)

GetCurrentNetworkExchangeRate(c) ==
    /\ calls[c].pc = "rate"
    /\ \/ Moves(c, "submit") /\ UNCHANGED faults
       \/ MayFail /\ Throws(c, "MirrorNodeClientError") /\ Faulty(TRUE)
    /\ UNCHANGED <<clientVars, deletions, files, chargeVars, overdues>>

IsDirect(c) == JumboEnabled \/ CallData[c] <= ChunkSize

SubmitEthereumTransaction(c) ==
    /\ calls[c].pc = "submit"
    /\ GetSDKClient
    /\ Moves(c, IF IsDirect(c) THEN "limit" ELSE "limitFile")
    /\ UNCHANGED <<deletions, files, chargeVars, faults, overdues>>

(* hbarLimitService.shouldLimit, with an estimate for a file, without one for the transaction (module HbarLimiter). *)
ShouldLimit(c) ==
    /\ calls[c].pc \in {"limitFile", "limit"}
    /\ \/ Moves(c, IF calls[c].pc = "limit" THEN "execute" ELSE "create") /\ UNCHANGED faults
       \/ MayFail /\ Throws(c, "HBAR_RATE_LIMIT_EXCEEDED") /\ Faulty(TRUE)
    /\ UNCHANGED <<clientVars, deletions, files, chargeVars, overdues>>

-----------------------------------------------------------------------------
(* createFile *)

CreateFile(c) ==
    /\ calls[c].pc = "create"
    /\ \E o \in Outcomes, s \in Statuses :
            /\ ExecuteTransaction(Charge(c, "create"), o)
            /\ files' = IF o.works THEN files \cup {c} ELSE files
            /\ IF o.ok THEN Moves(c, "receipt") ELSE Throws(c, s)
    /\ UNCHANGED <<clientVars, deletions, overdues>>

(* The receipt is read once more for the file id; without one there is no file to append to. *)
GetFileId(c) ==
    /\ calls[c].pc = "receipt"
    /\ \/ Moves(c, "append") /\ UNCHANGED faults
       \/ /\ MayFail /\ Faulty(TRUE)
          /\ \E e \in {"StatusError"} \cup Statuses : Throws(c, e)
    /\ UNCHANGED <<clientVars, deletions, files, chargeVars, overdues>>

(* The call data is written in hexadecimal; its first chunk is in the file already. *)
Chunks(c) == (2 * CallData[c] - ChunkSize + ChunkSize - 1) \div ChunkSize

Appended(c, n) == {[Charge(c, "append") EXCEPT !.n = i] : i \in 1 .. n}

ExecuteAllEmitsFirst(c, n, ok) == IF ok THEN Appended(c, 1) ELSE {}

(* executeAllTransaction has responses, and emits events, only when every chunk was appended. *)
EmittedOfAll(c, n, ok) == IF ok THEN Appended(c, n) ELSE {}

AppendFile(c) ==
    /\ calls[c].pc = "append"
    /\ \E n \in 0 .. Chunks(c), ok \in BOOLEAN, s \in Statuses :
            /\ Chunks(c) > MaxChunks => n = 0 /\ ~ok
            /\ ok => n = Chunks(c)
            /\ ok \/ MayFail
            /\ charged' = charged \cup Appended(c, n)
            /\ events' = events \cup EmittedOfAll(c, n, ok)
            /\ IF ok THEN Moves(c, "info") ELSE Throws(c, s)
            /\ Faulty(~ok)
    /\ UNCHANGED <<clientVars, deletions, files, recorded, unread, rejected, overdues>>

(* FileInfoQuery: a failure, a timeout, or a file found empty ends the call. *)
GetFileInfo(c) ==
    /\ calls[c].pc = "info"
    /\ \E paid \in BOOLEAN, ok \in BOOLEAN, e \in {"REQUEST_TIMEOUT"} \cup Statuses :
            /\ ExecuteQuery(Charge(c, "info"), paid, ok)
            /\ IF ok
               THEN calls' = [calls EXCEPT ![c].pc = "limit", ![c].file = TRUE]
               ELSE Throws(c, e)
    /\ UNCHANGED <<clientVars, deletions, files, overdues>>

(* The Ethereum transaction itself. *)
Execute(c) ==
    /\ calls[c].pc = "execute"
    /\ \E o \in Outcomes, s \in Statuses :
            /\ ExecuteTransaction(Charge(c, "ethereum"), o)
            /\ IF o.ok THEN calls' = [calls EXCEPT ![c].pc = "submitted", ![c].submitted = TRUE] ELSE Throws(c, s)
    /\ UNCHANGED <<clientVars, deletions, files, overdues>>

-----------------------------------------------------------------------------
(* The end of submitTransaction: txSubmitted and fileId come with the response only; a transaction id that is not one is   *)
(* an error, after which the file is deleted all the same.                                                                 *)
LaunchIfValid(c, valid) == calls[c].file /\ valid

Launch(c, valid) == calls[c].file

Finish(c) ==
    /\ calls[c].pc = "submitted"
    /\ \E valid \in BOOLEAN :
            /\ valid \/ MayFail
            /\ Faulty(~valid)
            /\ calls' = [calls EXCEPT ![c].pc = "ended", ![c].error = IF valid THEN @ ELSE "INTERNAL_ERROR"]
            /\ deletions' = [deletions EXCEPT ![c] = IF Launch(c, valid) THEN "delete" ELSE "none"]
    /\ UNCHANGED <<clientVars, files, chargeVars, overdues>>

(* sendRawTransactionErrorHandler: decrementErrorCounter, when the call gets to it. *)
HandleError(c) ==
    /\ calls[c].pc = "failed"
    /\ Moves(c, "ended")
    /\ hapi' = DecrementErrorCounter(hapi, calls[c].error)
    /\ reported' = (reported \/ calls[c].error \in ErrorReset)
    /\ UNCHANGED <<deletions, files, chargeVars, served, overtime, unheeded, faults, overdues>>

(* deleteFile takes a client of its own; its errors are logged only. *)
DeleteFile(c) ==
    /\ deletions[c] = "delete"
    /\ GetSDKClient
    /\ \E o \in Outcomes :
            /\ ExecuteTransaction(Charge(c, "delete"), o)
            /\ files' = IF o.works THEN files \ {c} ELSE files
            /\ deletions' = [deletions EXCEPT ![c] = IF o.ok THEN "info" ELSE "failed"]
    /\ UNCHANGED <<calls, overdues>>

ConfirmDeletion(c) ==
    /\ deletions[c] = "info"
    /\ \E paid \in BOOLEAN, ok \in BOOLEAN : ExecuteQuery(Charge(c, "deleted"), paid, ok)
    /\ deletions' = [deletions EXCEPT ![c] = "done"]
    /\ UNCHANGED <<clientVars, calls, files, overdues>>

-----------------------------------------------------------------------------
(* MetricService *)

Queries == {"info", "deleted"}

(* addExpense, for the fee of a transaction first: when it rejects (its plan has expired, a command of the store fails)     *)
(* captureTransactionMetrics rejects too and nothing more is added; unhandledRejection only logs it.                       *)
AddExpenses(e, costs) ==
    \E added \in {costs, costs \cap {e}, {}} :
        /\ added = costs \/ MayFail
        /\ Faulty(added # costs)
        /\ recorded' = recorded \cup added
        /\ rejected' = rejected \cup (costs \ added)

(* addExpenseAndCaptureMetrics of a query: its cost is known. *)
RecordQuery(e) ==
    /\ e \in events /\ e.of \in Queries
    /\ events' = events \ {e}
    /\ AddExpenses(e, {e})
    /\ UNCHANGED <<clientVars, calls, deletions, files, charged, unread, overdues>>

(* captureTransactionMetrics: what was read is added, without a record nothing is. *)
CaptureTransactionMetrics(e, found, costs) ==
    /\ e \in events /\ e.of \notin Queries
    /\ events' = events \ {e}
    /\ charged' = charged \cup costs
    /\ \/ found /\ AddExpenses(e, costs) /\ UNCHANGED unread
       \/ ~found /\ MayFail /\ Faulty(TRUE) /\ unread' = unread \cup costs /\ UNCHANGED <<recorded, rejected>>
    /\ UNCHANGED <<calls, deletions, files, overdues>>

(* TransactionRecordQuery, for a charge of its own and with a client of its own. *)
ReadRecordAtConsensusNode(e) ==
    /\ collector = "consensus"
    /\ GetSDKClient
    /\ \E found \in BOOLEAN, paid \in BOOLEAN :
            /\ found => paid
            /\ CaptureTransactionMetrics(e, found, IF paid THEN {e, [e EXCEPT !.record = TRUE]} ELSE {e})

(* repeatedRequest of getTransactionById finds the record within its repetitions or not. *)
ReadRecordAtMirrorNode(e) ==
    /\ collector = "mirror"
    /\ \E found \in BOOLEAN : CaptureTransactionMetrics(e, found, {e})
    /\ UNCHANGED clientVars

Step(c) ==
    \/ GetCurrentNetworkExchangeRate(c) \/ SubmitEthereumTransaction(c) \/ ShouldLimit(c)
    \/ CreateFile(c) \/ GetFileId(c) \/ AppendFile(c) \/ GetFileInfo(c) \/ Execute(c)
    \/ Finish(c) \/ HandleError(c) \/ DeleteFile(c) \/ ConfirmDeletion(c)

Record(e) == RecordQuery(e) \/ ReadRecordAtConsensusNode(e) \/ ReadRecordAtMirrorNode(e)

Next ==
    /\ Overdue \/ (\E c \in Calls : Step(c)) \/ (\E e \in events : Record(e))
    /\ UNCHANGED collector

Spec == Init /\ [][Next]_vars

-----------------------------------------------------------------------------
CallState ==
    [pc : {"rate", "submit", "limitFile", "create", "receipt", "append", "info", "limit", "execute", "submitted", "failed",
           "ended"},
     file : BOOLEAN, submitted : BOOLEAN,
     error : Statuses \cup {"none", "MirrorNodeClientError", "HBAR_RATE_LIMIT_EXCEEDED", "StatusError", "REQUEST_TIMEOUT",
                            "INTERNAL_ERROR"}]

TypeOK ==
    /\ hapi \in [transactionCount : 0 .. TransactionReset, shouldReset : BOOLEAN, overdue : BOOLEAN]
    /\ calls \in [Calls -> CallState]
    /\ deletions \in [Calls -> {"none", "delete", "info", "done", "failed"}]
    /\ files \subseteq Calls
    /\ served \in Nat /\ overtime \in Nat /\ reported \in BOOLEAN /\ unheeded \in Nat

(* No client is handed out for more than HAPI_CLIENT_TRANSACTION_RESET operations, deletions and record queries included;  *)
(* once it is too old it serves one more at most, and none after a status of HAPI_CLIENT_ERROR_RESET was reported          *)
(* (hapiService.ts, getSDKClient).                                                                                         *)
ClientsAreRenewed ==
    /\ TransactionReset # 0 => served <= TransactionReset
    /\ overtime <= 1
    /\ unheeded = 0

(* A file that is on the network when its call and its deletion are over belongs to a call that failed before the response *)
(* of its Ethereum transaction, or its deletion failed (submitTransaction, createFile, deleteFile).                        *)
FilesHaveCause ==
    \A c \in files :
        calls[c].pc = "ended" /\ deletions[c] \notin {"delete", "info"} => ~calls[c].submitted \/ deletions[c] = "failed"

Later(of) ==
    CASE of = "create" -> {"append", "info", "ethereum"} [] of = "append" -> {"info", "ethereum"}
      [] of = "info" -> {"ethereum"} [] of = "ethereum" -> {} [] of = "delete" -> {"deleted"} [] of = "deleted" -> {}

(* What the network charged is added to the expenses of the caller, unless the record could not be read, addExpense        *)
(* rejected it or the fee before it, or the transaction failed without a response, or it was a chunk of an append that     *)
(* failed later (sdkClient.ts, executeTransaction, executeAllTransaction, executeQuery; metricService.ts,                  *)
(* captureTransactionMetrics, addExpenseAndCaptureMetrics).  In the last two cases nothing was executed after it.          *)
UnrecordedHasCause ==
    \A x \in charged \ (recorded \cup events) :
        \/ x \in unread \cup rejected
        \/ /\ IF x.of = "delete" THEN deletions[x.call] = "failed" ELSE calls[x.call].error # "none"
           /\ ~\E y \in charged : y.call = x.call /\ y.of \in Later(x.of)
=============================================================================
