--------------------------- MODULE ConsensusProofs ---------------------------
(***************************************************************************)
(* Theorems about Consensus, for any calls, call data, chunks, limits of   *)
(* a client and failures: its types, that clients are renewed in time, why *)
(* a file may stay on the network and what the expenses may not know of.   *)
(***************************************************************************)
EXTENDS Consensus, TLAPS

(* The transactions a client served and those it may still serve are the    *)
(* limit; whatever is due, the client is marked for its renewal by the      *)
(* operation that finds it out, or by the report of the status, and only if *)
(* renewal is enabled at all.                                               *)
ClientInv ==
    /\ TransactionReset # 0 => /\ served + hapi.transactionCount = TransactionReset
                               /\ hapi.transactionCount = 0 => hapi.shouldReset
    /\ overtime <= 1
    /\ overtime = 1 => hapi.shouldReset
    /\ reported => hapi.shouldReset
    /\ unheeded = 0
    /\ hapi.overdue => DurationReset
    /\ hapi.shouldReset => IsReinitEnabled

(* A call has a file once it was created and knows it (file) when it is     *)
(* done with the appending; it is not over before its deletion starts, and  *)
(* the file of a submission is there only until its deletion succeeds.      *)
FileInv ==
    \A c \in Calls :
        /\ calls[c].pc \in {"rate", "submit", "limitFile", "create"} => c \notin files
        /\ calls[c].pc \in {"limit", "execute", "submitted"} /\ c \in files => calls[c].file
        /\ calls[c].pc \notin {"submitted", "ended"} => ~calls[c].submitted
        /\ calls[c].pc # "ended" => deletions[c] = "none"
        /\ calls[c].pc = "ended" /\ calls[c].submitted /\ c \in files => deletions[c] \in {"delete", "failed"}

(* What a call is charged for: a charge of a transaction or of its record. *)
ChargeState ==
    [call : Calls, of : {"create", "append", "info", "ethereum", "delete", "deleted"}, n : Nat, record : BOOLEAN]

(* Charges are made by the steps of submitTransaction, one after the other: *)
(* there is none for a step the call has not taken.                         *)
Placed(x) ==
    /\ x.of = "create" => calls[x.call].pc \notin {"rate", "submit", "limitFile", "create"}
    /\ x.of = "append" => calls[x.call].pc \notin {"rate", "submit", "limitFile", "create", "receipt", "append"}
    /\ x.of = "info" => calls[x.call].pc \notin {"rate", "submit", "limitFile", "create", "receipt", "append", "info"}
    /\ x.of = "ethereum" => calls[x.call].pc \in {"submitted", "failed", "ended"}
    /\ x.of = "delete" => deletions[x.call] \in {"info", "done", "failed"}
    /\ x.of = "deleted" => deletions[x.call] = "done"

Known == recorded \cup events \cup unread \cup rejected

(* A charge the metrics do not know of ended its call, or its deletion. *)
Ending(x) ==
    /\ \/ x.of = "delete" /\ deletions[x.call] = "failed"
       \/ x.of \in {"create", "append", "info", "ethereum"} /\ calls[x.call].pc \in {"failed", "ended"}
          /\ calls[x.call].error # "none"
    /\ \A y \in charged : y.call = x.call => y.of \notin Later(x.of)

ChargeInv ==
    /\ charged \subseteq ChargeState
    /\ events \subseteq charged /\ recorded \subseteq charged /\ unread \subseteq charged /\ rejected \subseteq charged
    /\ \A x \in charged : Placed(x) /\ (x \in Known \/ Ending(x))

IInv == TypeOK /\ ClientInv /\ FileInv /\ ChargeInv

ClientState == [transactionCount : 0 .. TransactionReset, shouldReset : BOOLEAN, overdue : BOOLEAN]

ClientType ==
    /\ hapi \in ClientState
    /\ served \in Nat /\ overtime \in Nat /\ reported \in BOOLEAN /\ unheeded \in Nat

CallType ==
    /\ calls \in [Calls -> CallState]
    /\ deletions \in [Calls -> {"none", "delete", "info", "done", "failed"}]
    /\ files \subseteq Calls

LEMMA TypeParts == TypeOK <=> ClientType /\ CallType
  BY DEF TypeOK, ClientType, ClientState, CallType

LEMMA TypePartsPrimed == TypeOK' <=> ClientType' /\ CallType'
  BY DEF TypeOK, ClientType, ClientState, CallType

LEMMA InitIInv == Init => IInv
  <1> SUFFICES ASSUME Init PROVE IInv
    OBVIOUS
  <1>1. ClientType /\ ClientInv
    <2>1. /\ hapi = [transactionCount |-> TransactionReset, shouldReset |-> FALSE, overdue |-> FALSE]
          /\ served = 0 /\ overtime = 0 /\ unheeded = 0
      BY DEF Init
    <2>2. reported \in BOOLEAN /\ ~reported
      BY Zenon DEF Init
    <2> QED BY <2>1, <2>2, ConsensusAssumption DEF ClientType, ClientState, ClientInv
  <1>2. CallType /\ FileInv
    BY DEF Init, CallType, CallState, FileInv
  <1>3. ChargeInv
    BY DEF Init, ChargeInv
  <1> QED BY <1>1, <1>2, <1>3, TypeParts DEF IInv

-----------------------------------------------------------------------------
(* HAPIService *)

(* decrementTransactionCounter asks for the renewal when it reaches 0. *)
LEMMA DecrementFacts ==
  ASSUME NEW h \in ClientState
  PROVE  LET d == DecrementTransactionCounter(h) IN
         /\ d \in ClientState
         /\ d.transactionCount = IF h.transactionCount = 0 THEN 0 ELSE h.transactionCount - 1
         /\ d.overdue = h.overdue
         /\ h.shouldReset => d.shouldReset
         /\ h.transactionCount = 1 => d.shouldReset
  <1> USE ConsensusAssumption DEF ClientState, DecrementTransactionCounter
  <1>1. CASE h.transactionCount = 0
    BY <1>1
  <1>2. CASE h.transactionCount # 0
    <2> DEFINE d == [h EXCEPT !.transactionCount = h.transactionCount - 1,
                              !.shouldReset = h.shouldReset \/ h.transactionCount = 1]
    <2>1. DecrementTransactionCounter(h) = d
      BY <1>2
    <2>2. d.transactionCount = h.transactionCount - 1 /\ d.overdue = h.overdue
      OBVIOUS
    <2>3. d.shouldReset = (h.shouldReset \/ h.transactionCount = 1)
      OBVIOUS
    <2>4. d \in ClientState
      <3>1. (h.shouldReset \/ h.transactionCount = 1) \in BOOLEAN
        OBVIOUS
      <3>2. h.transactionCount - 1 \in 0 .. TransactionReset
        BY <1>2
      <3> QED BY <3>1, <3>2
    <2> HIDE DEF d
    <2> QED BY <1>2, <2>1, <2>2, <2>3, <2>4 DEF ClientState
  <1> QED BY <1>1, <1>2

(* checkResetDuration asks for the renewal of a client that is too old. *)
LEMMA CheckResetFacts ==
  ASSUME NEW h \in ClientState
  PROVE  LET d == CheckResetDuration(h) IN
         /\ d \in ClientState
         /\ d.transactionCount = h.transactionCount /\ d.overdue = h.overdue
         /\ h.shouldReset => d.shouldReset
         /\ h.overdue => d.shouldReset
  <1>1. (h.shouldReset \/ h.overdue) \in BOOLEAN
    OBVIOUS
  <1> QED BY <1>1 DEF ClientState, CheckResetDuration

(* getSDKClient keeps the client's invariant. *)
LEMMA GetSDKClientInv ==
  ASSUME ClientType, ClientInv, GetSDKClient
  PROVE  ClientType' /\ ClientInv'
  <1> USE ConsensusAssumption DEF ClientType, ClientInv
  <1>1. CASE ~IsReinitEnabled
    BY <1>1 DEF GetSDKClient, Renews, IsReinitEnabled, ClientState
  <1>2. CASE IsReinitEnabled
    <2> DEFINE h == IF hapi.shouldReset THEN ResetClient(hapi) ELSE hapi
               d == DecrementTransactionCounter(h)
    <2>1. hapi' = CheckResetDuration(d)
      BY <1>2 DEF GetSDKClient, Renews
    <2>2. h \in ClientState
      BY DEF ResetClient, ClientState
    <2>3. d \in ClientState
      BY <2>2, DecrementFacts
    <2>4. hapi' \in ClientState
      BY <2>1, <2>3, CheckResetFacts
    <2>5. /\ hapi'.transactionCount = IF h.transactionCount = 0 THEN 0 ELSE h.transactionCount - 1
          /\ hapi'.overdue = h.overdue
          /\ h.overdue => hapi'.shouldReset
          /\ h.transactionCount = 1 => hapi'.shouldReset
      BY <2>1, <2>2, <2>3, CheckResetFacts, DecrementFacts
    <2>6. h.transactionCount \in Nat
      BY <2>2 DEF ClientState
    <2> HIDE DEF d
    <2>7. CASE hapi.shouldReset
      <3>1. h.transactionCount = TransactionReset /\ h.overdue = FALSE
        BY <2>7 DEF ResetClient
      <3>2. served' = 1 /\ overtime' = 0 /\ unheeded' = 0
        BY <1>2, <2>7 DEF GetSDKClient, Renews
      <3>3. reported' \in BOOLEAN /\ ~reported'
        BY <1>2, <2>7, Zenon DEF GetSDKClient, Renews
      <3> HIDE DEF h
      <3>4. TransactionReset # 0 => /\ served' + hapi'.transactionCount = TransactionReset
                                    /\ hapi'.transactionCount = 0 => hapi'.shouldReset
        BY <2>5, <3>1, <3>2
      <3>5. ~hapi'.overdue
        BY <2>5, <3>1, <3>2
      <3> QED BY <1>2, <2>4, <3>2, <3>3, <3>4, <3>5
    <2>8. CASE ~hapi.shouldReset
      <3>1. h = hapi
        BY <2>8
      <3>2. /\ served' = served + 1 /\ overtime' = IF hapi.overdue THEN overtime + 1 ELSE overtime
            /\ unheeded' = 0
        BY <1>2, <2>8 DEF GetSDKClient, Renews
      <3>3. reported' \in BOOLEAN /\ ~reported'
        BY <1>2, <2>8, Zenon DEF GetSDKClient, Renews
      <3> HIDE DEF h
      <3>4. served' \in Nat /\ overtime' \in Nat /\ overtime' <= 1
        BY <2>8, <3>2
      <3>5. TransactionReset # 0 => /\ served' + hapi'.transactionCount = TransactionReset
                                    /\ hapi'.transactionCount = 0 => hapi'.shouldReset
        BY <2>5, <2>6, <2>8, <3>1, <3>2
      <3>6. (overtime' = 1 => hapi'.shouldReset) /\ (hapi'.overdue => DurationReset)
        BY <2>5, <2>8, <3>1, <3>2
      <3> QED BY <1>2, <2>4, <3>2, <3>3, <3>4, <3>5, <3>6 DEF IsReinitEnabled
    <2> QED BY <2>7, <2>8
  <1> QED BY <1>1, <1>2

LEMMA ClientUnchanged ==
  ASSUME ClientType, ClientInv, UNCHANGED clientVars
  PROVE  ClientType' /\ ClientInv'
  BY DEF ClientType, ClientInv, clientVars

LEMMA OverdueClient ==
  ASSUME ClientType, ClientInv, Overdue
  PROVE  ClientType' /\ ClientInv'
  <1>1. hapi' = [hapi EXCEPT !.overdue = TRUE] /\ DurationReset /\ UNCHANGED <<served, overtime, reported, unheeded>>
    BY DEF Overdue
  <1> QED BY <1>1 DEF ClientType, ClientState, ClientInv, IsReinitEnabled

LEMMA HandleErrorClient ==
  ASSUME NEW c \in Calls, ClientType, ClientInv, HandleError(c)
  PROVE  ClientType' /\ ClientInv'
  <1> DEFINE due == hapi.shouldReset \/ (IsReinitEnabled /\ calls[c].error \in ErrorReset)
  <1>1. /\ hapi' = [hapi EXCEPT !.shouldReset = due]
        /\ reported' = (reported \/ calls[c].error \in ErrorReset) /\ UNCHANGED <<served, overtime, unheeded>>
    BY DEF HandleError, DecrementErrorCounter
  <1>2. due \in BOOLEAN /\ (hapi.shouldReset => due) /\ (due => IsReinitEnabled) /\ (calls[c].error \in ErrorReset => due)
    BY DEF ClientInv, IsReinitEnabled
  <1>3. reported' \in BOOLEAN /\ (reported' => due)
    BY <1>1, <1>2 DEF ClientType, ClientInv
  <1> HIDE DEF due
  <1> QED BY <1>1, <1>2, <1>3 DEF ClientType, ClientState, ClientInv, IsReinitEnabled

(* Every step of a call keeps the client's invariant. *)
LEMMA StepClient ==
  ASSUME NEW c \in Calls, ClientType, ClientInv, Step(c)
  PROVE  ClientType' /\ ClientInv'
  <1>1. UNCHANGED clientVars \/ GetSDKClient \/ HandleError(c)
    BY DEF Step, GetCurrentNetworkExchangeRate, SubmitEthereumTransaction, ShouldLimit, CreateFile, GetFileId, AppendFile,
           GetFileInfo, Execute, Finish, DeleteFile, ConfirmDeletion
  <1> QED BY <1>1, ClientUnchanged, GetSDKClientInv, HandleErrorClient

LEMMA RecordClient ==
  ASSUME NEW e \in events, ClientType, ClientInv, Record(e)
  PROVE  ClientType' /\ ClientInv'
  <1>1. UNCHANGED clientVars \/ GetSDKClient
    BY DEF Record, RecordQuery, ReadRecordAtConsensusNode, ReadRecordAtMirrorNode
  <1> QED BY <1>1, ClientUnchanged, GetSDKClientInv

-----------------------------------------------------------------------------
(* The files *)

LEMMA FilesUnchanged ==
  ASSUME CallType, FileInv, UNCHANGED <<calls, deletions, files>>
  PROVE  CallType' /\ FileInv'
  BY DEF CallType, FileInv

(* What a step of one call leaves alone and does to its state. *)
LEMMA MovesFrame ==
  ASSUME NEW c \in Calls, NEW pc \in {"submit", "limitFile", "create", "receipt", "append", "info", "limit", "execute", "ended"},
         CallType, Moves(c, pc)
  PROVE  /\ calls' \in [Calls -> CallState]
         /\ calls'[c].pc = pc /\ calls'[c].file = calls[c].file /\ calls'[c].submitted = calls[c].submitted
         /\ calls'[c].error = calls[c].error
         /\ \A d \in Calls \ {c} : calls'[d] = calls[d]
  BY DEF CallType, CallState, Moves

LEMMA ThrowsFrame ==
  ASSUME NEW c \in Calls,
         NEW e \in Statuses \cup {"MirrorNodeClientError", "HBAR_RATE_LIMIT_EXCEEDED", "StatusError", "REQUEST_TIMEOUT"},
         CallType, Throws(c, e)
  PROVE  /\ calls' \in [Calls -> CallState]
         /\ calls'[c].pc = "failed" /\ calls'[c].submitted = calls[c].submitted
         /\ calls'[c].error = e
         /\ \A d \in Calls \ {c} : calls'[d] = calls[d]
  BY DEF CallType, CallState, Throws

(* A call that throws before its submission is not submitted. *)
LEMMA ThrowsFiles ==
  ASSUME NEW c \in Calls,
         NEW e \in Statuses \cup {"MirrorNodeClientError", "HBAR_RATE_LIMIT_EXCEEDED", "StatusError", "REQUEST_TIMEOUT"},
         CallType, FileInv, Throws(c, e), calls[c].pc \notin {"submitted", "ended"},
         deletions' = deletions, files' \in {files, files \cup {c}}
  PROVE  CallType' /\ FileInv'
  <1>1. CallType'
    BY ThrowsFrame DEF CallType
  <1>2. FileInv'
    BY ThrowsFrame DEF FileInv
  <1> QED BY <1>1, <1>2

(* The steps before the file exists or that do not change whether it does. *)
LEMMA EarlyFiles ==
  ASSUME NEW c \in Calls, NEW pc \in {"submit", "limitFile", "create", "limit"},
         CallType, FileInv, Moves(c, pc), calls[c].pc \in {"rate", "submit", "limitFile"},
         deletions' = deletions, files' = files
  PROVE  CallType' /\ FileInv'
  <1>1. CallType'
    BY MovesFrame DEF CallType
  <1>2. FileInv'
    BY MovesFrame DEF FileInv
  <1> QED BY <1>1, <1>2

LEMMA CreateFileFiles ==
  ASSUME NEW c \in Calls, CallType, FileInv, CreateFile(c)
  PROVE  CallType' /\ FileInv'
  <1>1. PICK o \in Outcomes, s \in Statuses :
          /\ files' = IF o.works THEN files \cup {c} ELSE files
          /\ IF o.ok THEN Moves(c, "receipt") ELSE Throws(c, s)
    BY DEF CreateFile
  <1>2. calls[c].pc = "create" /\ deletions' = deletions
    BY DEF CreateFile
  <1>3. CASE Throws(c, s)
    BY <1>1, <1>2, <1>3, ThrowsFiles
  <1>4. CASE Moves(c, "receipt")
    <2>1. CallType'
      BY <1>1, <1>2, <1>4, MovesFrame DEF CallType
    <2>2. FileInv'
      BY <1>1, <1>2, <1>4, MovesFrame DEF FileInv
    <2> QED BY <2>1, <2>2
  <1> QED BY <1>1, <1>3, <1>4

(* From the receipt of the file to its last chunk. *)
LEMMA AppendFiles ==
  ASSUME NEW c \in Calls, NEW pc \in {"append", "info"},
         CallType, FileInv, Moves(c, pc), calls[c].pc \in {"receipt", "append"}, deletions' = deletions, files' = files
  PROVE  CallType' /\ FileInv'
  <1>1. CallType'
    BY MovesFrame DEF CallType
  <1>2. FileInv'
    BY MovesFrame DEF FileInv
  <1> QED BY <1>1, <1>2

LEMMA GetFileInfoFiles ==
  ASSUME NEW c \in Calls, CallType, FileInv, GetFileInfo(c)
  PROVE  CallType' /\ FileInv'
  <1>1. PICK ok \in BOOLEAN, e \in {"REQUEST_TIMEOUT"} \cup Statuses :
          IF ok THEN calls' = [calls EXCEPT ![c].pc = "limit", ![c].file = TRUE] ELSE Throws(c, e)
    BY DEF GetFileInfo
  <1>2. calls[c].pc = "info" /\ deletions' = deletions /\ files' = files
    BY DEF GetFileInfo
  <1>3. CASE ~ok
    BY <1>1, <1>2, <1>3, ThrowsFiles
  <1>4. CASE ok
    <2>1. /\ calls' \in [Calls -> CallState]
          /\ calls'[c].pc = "limit" /\ calls'[c].file /\ calls'[c].submitted = calls[c].submitted
          /\ \A d \in Calls \ {c} : calls'[d] = calls[d]
      BY <1>1, <1>4 DEF CallType, CallState
    <2>2. CallType'
      BY <1>2, <2>1 DEF CallType
    <2>3. FileInv'
      BY <1>2, <2>1 DEF FileInv
    <2> QED BY <2>2, <2>3
  <1> QED BY <1>3, <1>4

LEMMA ExecuteFiles ==
  ASSUME NEW c \in Calls, CallType, FileInv, Execute(c)
  PROVE  CallType' /\ FileInv'
  <1>1. PICK o \in Outcomes, e \in Statuses :
          IF o.ok THEN calls' = [calls EXCEPT ![c].pc = "submitted", ![c].submitted = TRUE] ELSE Throws(c, e)
    BY DEF Execute
  <1>2. calls[c].pc = "execute" /\ deletions' = deletions /\ files' = files
    BY DEF Execute
  <1>3. CASE ~o.ok
    BY <1>1, <1>2, <1>3, ThrowsFiles
  <1>4. CASE o.ok
    <2>1. /\ calls' \in [Calls -> CallState]
          /\ calls'[c].pc = "submitted" /\ calls'[c].file = calls[c].file
          /\ \A d \in Calls \ {c} : calls'[d] = calls[d]
      BY <1>1, <1>4 DEF CallType, CallState
    <2>2. CallType'
      BY <1>2, <2>1 DEF CallType
    <2>3. FileInv'
      BY <1>2, <2>1 DEF FileInv
    <2> QED BY <2>2, <2>3
  <1> QED BY <1>3, <1>4

LEMMA FinishFiles ==
  ASSUME NEW c \in Calls, CallType, FileInv, Finish(c)
  PROVE  CallType' /\ FileInv'
  <1>1. PICK valid \in BOOLEAN :
          /\ calls' = [calls EXCEPT ![c].pc = "ended", ![c].error = IF valid THEN @ ELSE "INTERNAL_ERROR"]
          /\ deletions' = [deletions EXCEPT ![c] = IF calls[c].file THEN "delete" ELSE "none"]
    BY DEF Finish, Launch
  <1>2. calls[c].pc = "submitted" /\ files' = files
    BY DEF Finish
  <1>3. /\ calls' \in [Calls -> CallState]
        /\ calls'[c].pc = "ended" /\ \A d \in Calls \ {c} : calls'[d] = calls[d]
    <2>1. CASE valid
      <3>1. calls' = [calls EXCEPT ![c].pc = "ended", ![c].error = calls[c].error]
        BY <1>1, <2>1
      <3> QED BY <3>1 DEF CallType, CallState
    <2>2. CASE ~valid
      <3>1. calls' = [calls EXCEPT ![c].pc = "ended", ![c].error = "INTERNAL_ERROR"]
        BY <1>1, <2>2
      <3> QED BY <3>1 DEF CallType, CallState
    <2> QED BY <2>1, <2>2
  <1>4. /\ deletions' \in [Calls -> {"none", "delete", "info", "done", "failed"}]
        /\ deletions'[c] = IF calls[c].file THEN "delete" ELSE "none"
        /\ \A d \in Calls \ {c} : deletions'[d] = deletions[d]
    BY <1>1 DEF CallType
  <1>5. CallType'
    BY <1>2, <1>3, <1>4 DEF CallType
  <1>6. FileInv'
    BY <1>2, <1>3, <1>4 DEF FileInv
  <1> QED BY <1>5, <1>6

LEMMA HandleErrorFiles ==
  ASSUME NEW c \in Calls, CallType, FileInv, HandleError(c)
  PROVE  CallType' /\ FileInv'
  <1>1. calls[c].pc = "failed" /\ Moves(c, "ended") /\ deletions' = deletions /\ files' = files
    BY DEF HandleError
  <1>2. CallType'
    BY <1>1, MovesFrame DEF CallType
  <1>3. FileInv'
    BY <1>1, MovesFrame DEF FileInv
  <1> QED BY <1>2, <1>3

(* The deletion of a file whose transaction was submitted ends with the     *)
(* file gone, or as failed.                                                 *)
LEMMA DeleteFileFiles ==
  ASSUME NEW c \in Calls, CallType, FileInv, DeleteFile(c)
  PROVE  CallType' /\ FileInv'
  <1>1. PICK o \in Outcomes :
          /\ files' = IF o.works THEN files \ {c} ELSE files
          /\ deletions' = [deletions EXCEPT ![c] = IF o.ok THEN "info" ELSE "failed"]
    BY DEF DeleteFile
  <1>2. deletions[c] = "delete" /\ calls' = calls
    BY DEF DeleteFile
  <1>3. o.ok => o.works
    BY DEF Outcomes, Success, Failures
  <1>4. /\ deletions' \in [Calls -> {"none", "delete", "info", "done", "failed"}]
        /\ deletions'[c] = IF o.ok THEN "info" ELSE "failed"
        /\ \A d \in Calls \ {c} : deletions'[d] = deletions[d]
    BY <1>1 DEF CallType
  <1>5. CallType'
    BY <1>1, <1>2, <1>4 DEF CallType
  <1>6. FileInv'
    BY <1>1, <1>2, <1>3, <1>4 DEF FileInv
  <1> QED BY <1>5, <1>6

LEMMA ConfirmDeletionFiles ==
  ASSUME NEW c \in Calls, CallType, FileInv, ConfirmDeletion(c)
  PROVE  CallType' /\ FileInv'
  <1>1. deletions[c] = "info" /\ deletions' = [deletions EXCEPT ![c] = "done"] /\ calls' = calls /\ files' = files
    BY DEF ConfirmDeletion
  <1>2. CallType'
    BY <1>1 DEF CallType
  <1>3. FileInv'
    BY <1>1 DEF FileInv, CallType
  <1> QED BY <1>2, <1>3

(* Every step of a call keeps the files' invariant. *)
LEMMA StepFiles ==
  ASSUME NEW c \in Calls, CallType, FileInv, Step(c)
  PROVE  CallType' /\ FileInv'
  <1>1. CASE GetCurrentNetworkExchangeRate(c)
    <2>1. Moves(c, "submit") \/ Throws(c, "MirrorNodeClientError")
      BY <1>1 DEF GetCurrentNetworkExchangeRate
    <2>2. calls[c].pc = "rate" /\ deletions' = deletions /\ files' = files
      BY <1>1 DEF GetCurrentNetworkExchangeRate
    <2> QED BY <2>1, <2>2, EarlyFiles, ThrowsFiles
  <1>2. CASE SubmitEthereumTransaction(c)
    <2>1. \E pc \in {"limit", "limitFile"} : Moves(c, pc)
      BY <1>2 DEF SubmitEthereumTransaction
    <2>2. calls[c].pc = "submit" /\ deletions' = deletions /\ files' = files
      BY <1>2 DEF SubmitEthereumTransaction
    <2> QED BY <2>1, <2>2, EarlyFiles
  <1>3. CASE ShouldLimit(c)
    <2>1. calls[c].pc \in {"limitFile", "limit"} /\ deletions' = deletions /\ files' = files
      BY <1>3 DEF ShouldLimit
    <2>2. CASE Throws(c, "HBAR_RATE_LIMIT_EXCEEDED")
      BY <2>1, <2>2, ThrowsFiles
    <2>3. CASE calls[c].pc = "limitFile" /\ Moves(c, "create")
      BY <2>1, <2>3, EarlyFiles
    <2>4. CASE calls[c].pc = "limit" /\ Moves(c, "execute")
      <3>1. CallType'
        BY <2>1, <2>4, MovesFrame DEF CallType
      <3>2. FileInv'
        BY <2>1, <2>4, MovesFrame DEF FileInv
      <3> QED BY <3>1, <3>2
    <2> QED BY <1>3, <2>2, <2>3, <2>4 DEF ShouldLimit
  <1>4. CASE GetFileId(c)
    <2>1. Moves(c, "append") \/ \E e \in {"StatusError"} \cup Statuses : Throws(c, e)
      BY <1>4 DEF GetFileId
    <2>2. calls[c].pc = "receipt" /\ deletions' = deletions /\ files' = files
      BY <1>4 DEF GetFileId
    <2> QED BY <2>1, <2>2, AppendFiles, ThrowsFiles
  <1>5. CASE AppendFile(c)
    <2>1. Moves(c, "info") \/ \E e \in Statuses : Throws(c, e)
      BY <1>5 DEF AppendFile
    <2>2. calls[c].pc = "append" /\ deletions' = deletions /\ files' = files
      BY <1>5 DEF AppendFile
    <2> QED BY <2>1, <2>2, AppendFiles, ThrowsFiles
  <1> QED BY <1>1, <1>2, <1>3, <1>4, <1>5, CreateFileFiles, GetFileInfoFiles, ExecuteFiles, FinishFiles, HandleErrorFiles,
             DeleteFileFiles, ConfirmDeletionFiles DEF Step

-----------------------------------------------------------------------------
(* The charges *)

LEMMA ChargesUnchanged ==
  ASSUME ChargeInv, UNCHANGED <<calls, deletions, chargeVars>>
  PROVE  ChargeInv'
  BY DEF ChargeInv, Placed, Known, Ending, chargeVars

(* A step of one call has only to be looked at for the charges of this call. *)
LEMMA ChargesOfCall ==
  ASSUME NEW c \in Calls, NEW new, ChargeInv,
         new \subseteq ChargeState, \A x \in new : x.call = c,
         charged' = charged \cup new, events \subseteq events', events' \subseteq events \cup new,
         recorded' = recorded, unread' = unread, rejected' = rejected,
         \A d \in Calls \ {c} : calls'[d] = calls[d] /\ deletions'[d] = deletions[d],
         \A x \in charged' : x.call = c => Placed(x)' /\ (x \in Known' \/ Ending(x)')
  PROVE  ChargeInv'
  <1>1. charged' \subseteq ChargeState
    BY DEF ChargeInv
  <1>2. events' \subseteq charged' /\ recorded' \subseteq charged' /\ unread' \subseteq charged' /\ rejected' \subseteq charged'
    BY DEF ChargeInv
  <1>3. ASSUME NEW x \in charged', x.call # c
        PROVE  Placed(x)' /\ (x \in Known' \/ Ending(x)')
    <2>1. x \in charged /\ x.call \in Calls \ {c}
      BY <1>1, <1>3 DEF ChargeState
    <2>2. Placed(x) /\ (x \in Known \/ Ending(x))
      BY <2>1 DEF ChargeInv
    <2>3. calls'[x.call] = calls[x.call] /\ deletions'[x.call] = deletions[x.call]
      BY <2>1
    <2>4. Placed(x)'
      BY <2>2, <2>3 DEF Placed
    <2>5. x \in Known => x \in Known'
      BY DEF Known
    <2>6. Ending(x) => Ending(x)'
      BY <1>3, <2>3 DEF Ending
    <2> QED BY <2>2, <2>4, <2>5, <2>6
  <1> QED BY <1>1, <1>2, <1>3 DEF ChargeInv

(* While a call goes on its charges are known, and its file is not deleted. *)
LEMMA OpenCall ==
  ASSUME NEW c \in Calls, FileInv, ChargeInv, calls[c].pc \notin {"failed", "ended"}, NEW x \in charged, x.call = c
  PROVE  x \in Known /\ x.of \in {"create", "append", "info", "ethereum"} /\ Placed(x)
  <1>1. Placed(x) /\ (x \in Known \/ Ending(x)) /\ x \in ChargeState
    BY DEF ChargeInv
  <1>2. deletions[c] = "none"
    BY DEF FileInv
  <1> QED BY <1>1, <1>2 DEF Placed, Ending, ChargeState

(* A step that goes well emits the events of what it was charged. *)
LEMMA AdvanceCharges ==
  ASSUME NEW c \in Calls, NEW new, FileInv, ChargeInv, calls[c].pc \notin {"failed", "ended"},
         new \subseteq ChargeState, \A x \in new : x.call = c /\ Placed(x)',
         charged' = charged \cup new, events' = events \cup new, recorded' = recorded, unread' = unread, rejected' = rejected,
         \A d \in Calls \ {c} : calls'[d] = calls[d] /\ deletions'[d] = deletions[d],
         \A x \in charged : x.call = c => Placed(x)'
  PROVE  ChargeInv'
  <1>1. ASSUME NEW x \in charged', x.call = c
        PROVE  Placed(x)' /\ x \in Known'
    <2>1. CASE x \in new
      BY <2>1 DEF Known
    <2>2. CASE x \in charged
      BY <1>1, <2>2, OpenCall DEF Known
    <2> QED BY <2>1, <2>2
  <1> QED BY <1>1, ChargesOfCall

(* A step that throws ends the call: what it was charged may stay unknown,  *)
(* and no later step is charged.                                            *)
LEMMA ThrowsCharges ==
  ASSUME NEW c \in Calls, NEW new, NEW of \in {"create", "append", "info", "ethereum"}, FileInv, ChargeInv, CallType,
         NEW e \in Statuses \cup {"MirrorNodeClientError", "HBAR_RATE_LIMIT_EXCEEDED", "StatusError", "REQUEST_TIMEOUT"},
         Throws(c, e), calls[c].pc \notin {"failed", "ended"}, deletions' = deletions,
         new \subseteq ChargeState, \A x \in new : x.call = c /\ x.of = of,
         charged' = charged \cup new, events \subseteq events', events' \subseteq events \cup new,
         recorded' = recorded, unread' = unread, rejected' = rejected,
         \A x \in charged : x.call = c => x.of \notin Later(of)
  PROVE  ChargeInv'
  <1>1. calls'[c].pc = "failed" /\ calls'[c].error = e /\ \A d \in Calls \ {c} : calls'[d] = calls[d]
    BY ThrowsFrame
  <1>2. e # "none"
    BY ConsensusAssumption
  <1>3. ASSUME NEW x \in charged', x.call = c
        PROVE  Placed(x)' /\ (x \in Known' \/ Ending(x)')
    <2>1. CASE x \in charged
      BY <1>1, <1>3, <2>1, OpenCall DEF Placed, Known
    <2>2. CASE x \in new
      <3>1. x.of = of /\ x.of \notin {"delete", "deleted"}
        BY <2>2
      <3>2. Placed(x)'
        BY <1>1, <1>3, <3>1 DEF Placed
      <3>3. of \notin Later(of)
        BY DEF Later
      <3>4. Ending(x)'
        BY <1>1, <1>2, <1>3, <3>1, <3>3 DEF Ending
      <3> QED BY <3>2, <3>4
    <2> QED BY <2>1, <2>2
  <1> QED BY <1>1, <1>3, ChargesOfCall

LEMMA ChargeType ==
  ASSUME NEW c \in Calls, NEW of \in {"create", "append", "info", "ethereum", "delete", "deleted"}
  PROVE  /\ Charge(c, of) \in ChargeState /\ Charge(c, of).call = c /\ Charge(c, of).of = of
         /\ \A n \in Nat : /\ Appended(c, n) \subseteq ChargeState
                           /\ \A x \in Appended(c, n) : x.call = c /\ x.of = "append"
  <1>1. /\ Charge(c, of) \in ChargeState /\ Charge(c, of).call = c /\ Charge(c, of).of = of
    BY DEF Charge, ChargeState
  <1>2. ASSUME NEW n \in Nat, NEW x \in Appended(c, n)
        PROVE  x \in ChargeState /\ x.call = c /\ x.of = "append"
    <2>1. PICK i \in 1 .. n : x = [Charge(c, "append") EXCEPT !.n = i]
      BY <1>2 DEF Appended
    <2>2. x = [call |-> c, of |-> "append", n |-> i, record |-> FALSE]
      BY <2>1 DEF Charge
    <2>3. i \in Nat
      OBVIOUS
    <2> QED BY <2>2, <2>3 DEF ChargeState
  <1> QED BY <1>1, <1>2

(* executeTransaction: what responds was charged, what succeeds responds. *)
LEMMA OutcomeFacts ==
  ASSUME NEW o \in Outcomes
  PROVE  (o.ok => o.taken /\ o.responded) /\ (o.responded => o.taken)
  BY DEF Outcomes, Success, Failures

(* The steps that are charged nothing. *)
LEMMA FreeCharges ==
  ASSUME NEW c \in Calls, FileInv, ChargeInv, CallType, UNCHANGED chargeVars, deletions' = deletions,
         calls[c].pc \notin {"failed", "ended"},
         \/ /\ calls[c].pc = "rate" /\ Moves(c, "submit")
         \/ /\ calls[c].pc = "submit" /\ \E pc \in {"limit", "limitFile"} : Moves(c, pc)
         \/ /\ calls[c].pc = "limitFile" /\ Moves(c, "create")
         \/ /\ calls[c].pc = "limit" /\ Moves(c, "execute")
         \/ /\ calls[c].pc = "receipt" /\ Moves(c, "append")
         \/ \E e \in Statuses \cup {"MirrorNodeClientError", "HBAR_RATE_LIMIT_EXCEEDED", "StatusError"} : Throws(c, e)
  PROVE  ChargeInv'
  <1>1. \A d \in Calls \ {c} : calls'[d] = calls[d] /\ deletions'[d] = deletions[d]
    BY MovesFrame, ThrowsFrame
  <1>2. ASSUME NEW x \in charged, x.call = c
        PROVE  Placed(x)'
    <2>1. Placed(x) /\ x.of \in {"create", "append", "info", "ethereum"}
      BY <1>2, OpenCall
    <2>2. CASE \E e \in Statuses \cup {"MirrorNodeClientError", "HBAR_RATE_LIMIT_EXCEEDED", "StatusError"} : Throws(c, e)
      <3>1. calls'[c].pc = "failed"
        BY <2>2, ThrowsFrame
      <3> QED BY <1>2, <2>1, <3>1 DEF Placed
    <2>3. CASE calls[c].pc = "rate" /\ Moves(c, "submit")
      BY <1>2, <2>1, <2>3, MovesFrame DEF Placed
    <2>4. CASE calls[c].pc = "submit" /\ \E pc \in {"limit", "limitFile"} : Moves(c, pc)
      BY <1>2, <2>1, <2>4, MovesFrame DEF Placed
    <2>5. CASE calls[c].pc = "limitFile" /\ Moves(c, "create")
      BY <1>2, <2>1, <2>5, MovesFrame DEF Placed
    <2>6. CASE calls[c].pc = "limit" /\ Moves(c, "execute")
      BY <1>2, <2>1, <2>6, MovesFrame DEF Placed
    <2>7. CASE calls[c].pc = "receipt" /\ Moves(c, "append")
      BY <1>2, <2>1, <2>7, MovesFrame DEF Placed
    <2> QED BY <2>2, <2>3, <2>4, <2>5, <2>6, <2>7
  <1> DEFINE new == {}
  <1>3. /\ charged' = charged \cup new /\ events' = events \cup new /\ recorded' = recorded /\ unread' = unread /\ rejected' = rejected
        /\ new \subseteq ChargeState /\ \A x \in new : x.call = c /\ Placed(x)'
    BY DEF chargeVars
  <1> HIDE DEF new
  <1> QED BY <1>1, <1>2, <1>3, AdvanceCharges

LEMMA CreateFileCharges ==
  ASSUME NEW c \in Calls, FileInv, ChargeInv, CallType, CreateFile(c)
  PROVE  ChargeInv'
  <1> DEFINE charge == Charge(c, "create")
  <1>1. PICK o \in Outcomes, s \in Statuses :
          /\ ExecuteTransaction(charge, o)
          /\ IF o.ok THEN Moves(c, "receipt") ELSE Throws(c, s)
    BY DEF CreateFile
  <1>2. calls[c].pc = "create" /\ deletions' = deletions
    BY DEF CreateFile
  <1>3. charge \in ChargeState /\ charge.call = c /\ charge.of = "create"
    BY ChargeType
  <1> HIDE DEF charge
  <1>4. \A x \in charged : x.call # c
    BY <1>2, OpenCall DEF Placed
  <1> DEFINE new == IF o.taken THEN {charge} ELSE {}
  <1>5. /\ charged' = charged \cup new
        /\ events' = events \cup (IF o.responded THEN new ELSE {})
        /\ recorded' = recorded /\ unread' = unread /\ rejected' = rejected
        /\ new \subseteq ChargeState /\ \A x \in new : x.call = c /\ x.of = "create"
    BY <1>1, <1>3, OutcomeFacts DEF ExecuteTransaction
  <1>6. CASE o.ok
    <2>1. calls'[c].pc = "receipt" /\ \A d \in Calls \ {c} : calls'[d] = calls[d] /\ deletions'[d] = deletions[d]
      BY <1>1, <1>2, <1>6, MovesFrame
    <2>2. \A x \in new : Placed(x)'
      BY <1>5, <2>1 DEF Placed
    <2>3. events' = events \cup new
      BY <1>5, <1>6, OutcomeFacts
    <2> HIDE DEF new
    <2> QED BY <1>2, <1>4, <1>5, <2>1, <2>2, <2>3, AdvanceCharges
  <1>7. CASE ~o.ok
    <2> HIDE DEF new
    <2>1. Throws(c, s)
      BY <1>1, <1>7
    <2>2. events \subseteq events' /\ events' \subseteq events \cup new
      BY <1>5
    <2> QED BY <1>2, <1>4, <1>5, <2>1, <2>2, ThrowsCharges
  <1> QED BY <1>6, <1>7

LEMMA AppendFileCharges ==
  ASSUME NEW c \in Calls, FileInv, ChargeInv, CallType, AppendFile(c)
  PROVE  ChargeInv'
  <1>1. PICK n \in 0 .. Chunks(c), ok \in BOOLEAN, s \in Statuses :
          /\ charged' = charged \cup Appended(c, n)
          /\ events' = events \cup EmittedOfAll(c, n, ok)
          /\ IF ok THEN Moves(c, "info") ELSE Throws(c, s)
    BY DEF AppendFile
  <1>2. calls[c].pc = "append" /\ deletions' = deletions /\ recorded' = recorded /\ unread' = unread /\ rejected' = rejected
    BY DEF AppendFile
  <1> DEFINE new == Appended(c, n)
  <1>3. new \subseteq ChargeState /\ \A x \in new : x.call = c /\ x.of = "append"
    BY ChargeType
  <1>4. events' = events \cup (IF ok THEN new ELSE {})
    BY <1>1 DEF EmittedOfAll
  <1> HIDE DEF new
  <1>5. \A x \in charged : x.call = c => x.of = "create" /\ Placed(x)
    BY <1>2, OpenCall DEF Placed
  <1>6. CASE ok
    <2>1. calls'[c].pc = "info" /\ \A d \in Calls \ {c} : calls'[d] = calls[d] /\ deletions'[d] = deletions[d]
      BY <1>1, <1>2, <1>6, MovesFrame
    <2>2. \A x \in new : Placed(x)'
      BY <1>3, <2>1 DEF Placed
    <2>3. \A x \in charged : x.call = c => Placed(x)'
      BY <1>5, <2>1 DEF Placed
    <2>4. charged' = charged \cup new
      BY <1>1 DEF new
    <2> QED BY <1>2, <1>3, <1>4, <1>6, <2>1, <2>2, <2>3, <2>4, AdvanceCharges
  <1>7. CASE ~ok
    <2>1. Throws(c, s)
      BY <1>1, <1>7
    <2>2. charged' = charged \cup new /\ events \subseteq events' /\ events' \subseteq events \cup new
      BY <1>1, <1>4 DEF new
    <2>3. \A x \in charged : x.call = c => x.of \notin Later("append")
      BY <1>5 DEF Later
    <2> QED BY <1>2, <1>3, <2>1, <2>2, <2>3, ThrowsCharges
  <1> QED BY <1>6, <1>7

LEMMA GetFileInfoCharges ==
  ASSUME NEW c \in Calls, FileInv, ChargeInv, CallType, GetFileInfo(c)
  PROVE  ChargeInv'
  <1> DEFINE charge == Charge(c, "info")
  <1>1. PICK paid \in BOOLEAN, ok \in BOOLEAN, e \in {"REQUEST_TIMEOUT"} \cup Statuses :
          /\ ExecuteQuery(charge, paid, ok)
          /\ IF ok THEN calls' = [calls EXCEPT ![c].pc = "limit", ![c].file = TRUE] ELSE Throws(c, e)
    BY DEF GetFileInfo
  <1>2. calls[c].pc = "info" /\ deletions' = deletions
    BY DEF GetFileInfo
  <1>3. charge \in ChargeState /\ charge.call = c /\ charge.of = "info"
    BY ChargeType
  <1> HIDE DEF charge
  <1> DEFINE new == IF paid THEN {charge} ELSE {}
  <1>4. /\ charged' = charged \cup new /\ events' = events \cup new
        /\ recorded' = recorded /\ unread' = unread /\ rejected' = rejected
        /\ new \subseteq ChargeState /\ \A x \in new : x.call = c /\ x.of = "info"
    BY <1>1, <1>3 DEF ExecuteQuery
  <1> HIDE DEF new
  <1>5. \A x \in charged : x.call = c => x.of \in {"create", "append"} /\ Placed(x)
    BY <1>2, OpenCall DEF Placed
  <1>6. CASE ok
    <2>1. calls'[c].pc = "limit" /\ \A d \in Calls \ {c} : calls'[d] = calls[d] /\ deletions'[d] = deletions[d]
      BY <1>1, <1>2, <1>6 DEF CallType, CallState
    <2>2. \A x \in new : Placed(x)'
      BY <1>4, <2>1 DEF Placed
    <2>3. \A x \in charged : x.call = c => Placed(x)'
      BY <1>5, <2>1 DEF Placed
    <2> QED BY <1>2, <1>4, <2>1, <2>2, <2>3, AdvanceCharges
  <1>7. CASE ~ok
    <2>1. Throws(c, e)
      BY <1>1, <1>7
    <2>2. \A x \in charged : x.call = c => x.of \notin Later("info")
      BY <1>5 DEF Later
    <2> QED BY <1>2, <1>4, <2>1, <2>2, ThrowsCharges
  <1> QED BY <1>6, <1>7

LEMMA ExecuteCharges ==
  ASSUME NEW c \in Calls, FileInv, ChargeInv, CallType, Execute(c)
  PROVE  ChargeInv'
  <1> DEFINE charge == Charge(c, "ethereum")
  <1>1. PICK o \in Outcomes, s \in Statuses :
          /\ ExecuteTransaction(charge, o)
          /\ IF o.ok THEN calls' = [calls EXCEPT ![c].pc = "submitted", ![c].submitted = TRUE] ELSE Throws(c, s)
    BY DEF Execute
  <1>2. calls[c].pc = "execute" /\ deletions' = deletions
    BY DEF Execute
  <1>3. charge \in ChargeState /\ charge.call = c /\ charge.of = "ethereum"
    BY ChargeType
  <1> HIDE DEF charge
  <1> DEFINE new == IF o.taken THEN {charge} ELSE {}
  <1>4. /\ charged' = charged \cup new
        /\ events' = events \cup (IF o.responded THEN new ELSE {})
        /\ recorded' = recorded /\ unread' = unread /\ rejected' = rejected
        /\ new \subseteq ChargeState /\ \A x \in new : x.call = c /\ x.of = "ethereum"
    BY <1>1, <1>3, OutcomeFacts DEF ExecuteTransaction
  <1> HIDE DEF new
  <1>5. \A x \in charged : x.call = c => x.of \in {"create", "append", "info"} /\ Placed(x)
    BY <1>2, OpenCall DEF Placed
  <1>6. CASE o.ok
    <2>1. calls'[c].pc = "submitted" /\ \A d \in Calls \ {c} : calls'[d] = calls[d] /\ deletions'[d] = deletions[d]
      BY <1>1, <1>2, <1>6 DEF CallType, CallState
    <2>2. \A x \in new : Placed(x)'
      BY <1>4, <2>1 DEF Placed
    <2>3. \A x \in charged : x.call = c => Placed(x)'
      BY <1>5, <2>1 DEF Placed
    <2>4. events' = events \cup new
      BY <1>4, <1>6, OutcomeFacts
    <2> QED BY <1>2, <1>4, <2>1, <2>2, <2>3, <2>4, AdvanceCharges
  <1>7. CASE ~o.ok
    <2>1. Throws(c, s)
      BY <1>1, <1>7
    <2>2. events \subseteq events' /\ events' \subseteq events \cup new
      BY <1>4
    <2>3. \A x \in charged : x.call = c => x.of \notin Later("ethereum")
      BY DEF Later
    <2> QED BY <1>2, <1>4, <2>1, <2>2, <2>3, ThrowsCharges
  <1> QED BY <1>6, <1>7

(* The end of a call, well or not, keeps what its charges say. *)
LEMMA EndCharges ==
  ASSUME NEW c \in Calls, FileInv, ChargeInv, CallType, Finish(c) \/ HandleError(c)
  PROVE  ChargeInv'
  <1> DEFINE new == {}
  <1>1. /\ charged' = charged \cup new /\ events' = events \cup new /\ recorded' = recorded /\ unread' = unread /\ rejected' = rejected
        /\ new \subseteq ChargeState /\ \A x \in new : x.call = c /\ Placed(x)'
    BY DEF Finish, HandleError, chargeVars
  <1>4. charged' = charged
    BY <1>1
  <1> HIDE DEF new
  <1>2. CASE Finish(c)
    <2>1. PICK valid \in BOOLEAN :
            /\ calls' = [calls EXCEPT ![c].pc = "ended", ![c].error = IF valid THEN @ ELSE "INTERNAL_ERROR"]
            /\ deletions' = [deletions EXCEPT ![c] = IF Launch(c, valid) THEN "delete" ELSE "none"]
      BY <1>2 DEF Finish
    <2>2. calls[c].pc = "submitted"
      BY <1>2 DEF Finish
    <2>3. \A d \in Calls \ {c} : calls'[d] = calls[d] /\ deletions'[d] = deletions[d]
      BY <2>1 DEF CallType
    <2>4. calls'[c].pc = "ended"
      BY <2>1 DEF CallType, CallState
    <2>5. \A x \in charged : x.call = c => Placed(x)'
      BY <2>2, <2>4, OpenCall DEF Placed
    <2> QED BY <1>1, <2>2, <2>3, <2>5, AdvanceCharges
  <1>3. CASE HandleError(c)
    <2>1. calls[c].pc = "failed" /\ Moves(c, "ended") /\ deletions' = deletions
      BY <1>3 DEF HandleError
    <2>2. /\ calls'[c].pc = "ended" /\ calls'[c].error = calls[c].error
          /\ \A d \in Calls \ {c} : calls'[d] = calls[d] /\ deletions'[d] = deletions[d]
      BY <2>1, MovesFrame
    <2>3. ASSUME NEW x \in charged', x.call = c
          PROVE  Placed(x)' /\ (x \in Known' \/ Ending(x)')
      <3>1. Placed(x) /\ (x \in Known \/ Ending(x))
        BY <1>4, <2>3 DEF ChargeInv
      <3>2. Placed(x)'
        BY <2>1, <2>2, <2>3, <3>1 DEF Placed
      <3>3. x \in Known => x \in Known'
        BY <1>1 DEF Known
      <3>4. Ending(x) => Ending(x)'
        BY <1>4, <2>1, <2>2, <2>3 DEF Ending
      <3> QED BY <3>1, <3>2, <3>3, <3>4
    <2> QED BY <1>1, <2>2, <2>3, ChargesOfCall
  <1> QED BY <1>2, <1>3

(* deleteFile: a deletion that fails is not confirmed. *)
LEMMA DeletionCharges ==
  ASSUME NEW c \in Calls, FileInv, ChargeInv, CallType, DeleteFile(c) \/ ConfirmDeletion(c)
  PROVE  ChargeInv'
  <1>1. CASE DeleteFile(c)
    <2> DEFINE charge == Charge(c, "delete")
    <2>1. PICK o \in Outcomes :
            /\ ExecuteTransaction(charge, o)
            /\ deletions' = [deletions EXCEPT ![c] = IF o.ok THEN "info" ELSE "failed"]
      BY <1>1 DEF DeleteFile
    <2>2. deletions[c] = "delete" /\ calls' = calls
      BY <1>1 DEF DeleteFile
    <2>3. charge \in ChargeState /\ charge.call = c /\ charge.of = "delete"
      BY ChargeType
    <2> HIDE DEF charge
    <2> DEFINE new == IF o.taken THEN {charge} ELSE {}
    <2>4. /\ charged' = charged \cup new
          /\ events' = events \cup (IF o.responded THEN new ELSE {})
          /\ recorded' = recorded /\ unread' = unread /\ rejected' = rejected
          /\ new \subseteq ChargeState /\ \A x \in new : x.call = c /\ x.of = "delete"
      BY <2>1, <2>3, OutcomeFacts DEF ExecuteTransaction
    <2>5. o.ok => events' = events \cup new
      BY <2>4, OutcomeFacts
    <2> HIDE DEF new
    <2>6. /\ deletions'[c] = IF o.ok THEN "info" ELSE "failed"
          /\ \A d \in Calls \ {c} : calls'[d] = calls[d] /\ deletions'[d] = deletions[d]
      BY <2>1, <2>2 DEF CallType
    <2>7. ASSUME NEW x \in charged, x.call = c
          PROVE  x.of \notin {"delete", "deleted"} /\ Placed(x)' /\ (x \in Known' \/ Ending(x)')
      <3>1. Placed(x) /\ (x \in Known \/ Ending(x)) /\ x.of \notin {"delete", "deleted"}
        BY <2>2, <2>7 DEF ChargeInv, Placed
      <3>2. Placed(x)'
        BY <2>2, <2>7, <3>1 DEF Placed
      <3>3. x \in Known => x \in Known'
        BY <2>4 DEF Known
      <3>4. x.of \in {"create", "append", "info", "ethereum"} => "delete" \notin Later(x.of)
        BY DEF Later
      <3>5. Ending(x) => Ending(x)'
        BY <2>2, <2>4, <3>1, <3>4 DEF Ending
      <3> QED BY <3>1, <3>2, <3>3, <3>5
    <2>8. ASSUME NEW x \in new
          PROVE  Placed(x)' /\ (x \in Known' \/ Ending(x)')
      <3>1. x.call = c /\ x.of = "delete"
        BY <2>4, <2>8
      <3>2. Placed(x)'
        BY <2>6, <3>1 DEF Placed
      <3>3. Later("delete") = {"deleted"}
        BY DEF Later
      <3>4. CASE o.ok
        BY <2>5, <3>2, <3>4 DEF Known
      <3>5. CASE ~o.ok
        BY <2>4, <2>6, <2>7, <3>1, <3>2, <3>3, <3>5 DEF Ending
      <3> QED BY <3>4, <3>5
    <2>9. events \subseteq events' /\ events' \subseteq events \cup new
      BY <2>4
    <2> QED BY <2>4, <2>6, <2>7, <2>8, <2>9, ChargesOfCall
  <1>2. CASE ConfirmDeletion(c)
    <2> DEFINE charge == Charge(c, "deleted")
    <2>1. PICK paid \in BOOLEAN, ok \in BOOLEAN : ExecuteQuery(charge, paid, ok)
      BY <1>2 DEF ConfirmDeletion
    <2>2. deletions[c] = "info" /\ deletions' = [deletions EXCEPT ![c] = "done"] /\ calls' = calls
      BY <1>2 DEF ConfirmDeletion
    <2>3. charge \in ChargeState /\ charge.call = c /\ charge.of = "deleted"
      BY ChargeType
    <2> HIDE DEF charge
    <2> DEFINE new == IF paid THEN {charge} ELSE {}
    <2>4. /\ charged' = charged \cup new /\ events' = events \cup new
          /\ recorded' = recorded /\ unread' = unread /\ rejected' = rejected
          /\ new \subseteq ChargeState /\ \A x \in new : x.call = c /\ x.of = "deleted"
      BY <2>1, <2>3 DEF ExecuteQuery
    <2> HIDE DEF new
    <2>5. deletions'[c] = "done" /\ \A d \in Calls \ {c} : calls'[d] = calls[d] /\ deletions'[d] = deletions[d]
      BY <2>2 DEF CallType
    <2>6. ASSUME NEW x \in charged, x.call = c
          PROVE  Placed(x)' /\ (x \in Known' \/ Ending(x)')
      <3>1. Placed(x) /\ (x \in Known \/ Ending(x)) /\ x.of # "deleted"
        BY <2>2, <2>6 DEF ChargeInv, Placed
      <3>2. Placed(x)'
        BY <2>2, <2>5, <2>6, <3>1 DEF Placed
      <3>3. x \in Known => x \in Known'
        BY <2>4 DEF Known
      <3>4. x.of \in {"create", "append", "info", "ethereum"} => "deleted" \notin Later(x.of)
        BY DEF Later
      <3>5. Ending(x) => Ending(x)'
        BY <2>2, <2>4, <2>6, <3>1, <3>4 DEF Ending
      <3> QED BY <3>1, <3>2, <3>3, <3>5
    <2>7. ASSUME NEW x \in new
          PROVE  Placed(x)' /\ x \in Known'
      BY <2>4, <2>5 DEF Placed, Known
    <2> QED BY <2>4, <2>5, <2>6, <2>7, ChargesOfCall
  <1> QED BY <1>1, <1>2

(* Every step of a call keeps the invariant of the charges. *)
LEMMA StepCharges ==
  ASSUME NEW c \in Calls, FileInv, ChargeInv, CallType, Step(c)
  PROVE  ChargeInv'
  <1>1. CASE GetCurrentNetworkExchangeRate(c)
    BY <1>1, FreeCharges DEF GetCurrentNetworkExchangeRate
  <1>2. CASE SubmitEthereumTransaction(c)
    <2>1. \E pc \in {"limit", "limitFile"} : Moves(c, pc)
      BY <1>2 DEF SubmitEthereumTransaction
    <2> QED BY <1>2, <2>1, FreeCharges DEF SubmitEthereumTransaction
  <1>3. CASE ShouldLimit(c)
    <2>1. \/ calls[c].pc = "limit" /\ Moves(c, "execute")
          \/ calls[c].pc = "limitFile" /\ Moves(c, "create")
          \/ Throws(c, "HBAR_RATE_LIMIT_EXCEEDED")
      BY <1>3 DEF ShouldLimit
    <2> QED BY <1>3, <2>1, FreeCharges DEF ShouldLimit
  <1>4. CASE GetFileId(c)
    BY <1>4, FreeCharges DEF GetFileId
  <1> QED BY <1>1, <1>2, <1>3, <1>4, CreateFileCharges, AppendFileCharges, GetFileInfoCharges, ExecuteCharges, EndCharges,
             DeletionCharges DEF Step

(* MetricService: what it takes from the events it records or knows it could not read; the charge for a record belongs to  *)
(* the same step as the transaction's.                                                                                     *)
LEMMA RecordCharges ==
  ASSUME NEW e \in events, ChargeInv, Record(e)
  PROVE  ChargeInv'
  <1>1. calls' = calls /\ deletions' = deletions
    BY DEF Record, RecordQuery, ReadRecordAtConsensusNode, ReadRecordAtMirrorNode, CaptureTransactionMetrics
  <1> DEFINE own == [e EXCEPT !.record = TRUE]
  <1>2. PICK costs \in SUBSET {e, own} :
          /\ charged' = charged \cup costs
          /\ events' = events \ {e} /\ e \in costs
          /\ \/ /\ recorded' \cup rejected' = recorded \cup rejected \cup costs
                /\ recorded \subseteq recorded' /\ rejected \subseteq rejected' /\ unread' = unread
             \/ recorded' = recorded /\ unread' = unread \cup costs /\ rejected' = rejected
    <2>1. CASE RecordQuery(e)
      <3>1. charged' = charged \cup {e} /\ events' = events \ {e} /\ AddExpenses(e, {e}) /\ unread' = unread
        BY <2>1 DEF RecordQuery, ChargeInv
      <3> HIDE DEF own
      <3> QED BY <3>1 DEF AddExpenses
    <2>2. CASE ReadRecordAtConsensusNode(e)
      <3>1. PICK found \in BOOLEAN, paid \in BOOLEAN : CaptureTransactionMetrics(e, found, IF paid THEN {e, own} ELSE {e})
        BY <2>2 DEF ReadRecordAtConsensusNode
      <3> HIDE DEF own
      <3> DEFINE costs == IF paid THEN {e, own} ELSE {e}
      <3>2. costs \in SUBSET {e, own} /\ e \in costs
        OBVIOUS
      <3> HIDE DEF costs
      <3>3. CaptureTransactionMetrics(e, found, costs)
        BY <3>1 DEF costs
      <3> QED BY <3>2, <3>3 DEF CaptureTransactionMetrics, AddExpenses
    <2>3. CASE ReadRecordAtMirrorNode(e)
      <3>1. PICK found \in BOOLEAN : CaptureTransactionMetrics(e, found, {e})
        BY <2>3 DEF ReadRecordAtMirrorNode
      <3> HIDE DEF own
      <3> QED BY <3>1 DEF CaptureTransactionMetrics, AddExpenses
    <2> QED BY <2>1, <2>2, <2>3 DEF Record
  <1>3. e \in charged /\ e \in ChargeState
    BY DEF ChargeInv
  <1>4. own \in ChargeState /\ own.call = e.call /\ own.of = e.of
    BY <1>3 DEF ChargeState
  <1> HIDE DEF own
  <1>5. \A y \in charged' : \E z \in charged : z.call = y.call /\ z.of = y.of
    BY <1>2, <1>3, <1>4
  <1>6. charged' \subseteq ChargeState
    BY <1>2, <1>3, <1>4 DEF ChargeInv
  <1>7. events' \subseteq charged' /\ recorded' \subseteq charged' /\ unread' \subseteq charged' /\ rejected' \subseteq charged'
    BY <1>2 DEF ChargeInv
  <1>8. ASSUME NEW x \in charged'
        PROVE  Placed(x)' /\ (x \in Known' \/ Ending(x)')
    <2>1. CASE x \in costs
      <3>1. Placed(e) /\ x.call = e.call /\ x.of = e.of
        BY <1>2, <1>3, <1>4, <2>1 DEF ChargeInv
      <3>2. Placed(x)'
        BY <1>1, <3>1 DEF Placed
      <3> QED BY <1>2, <2>1, <3>2 DEF Known
    <2>2. CASE x \in charged /\ x \notin costs
      <3>1. Placed(x) /\ (x \in Known \/ Ending(x))
        BY <2>2 DEF ChargeInv
      <3>2. Placed(x)'
        BY <1>1, <3>1 DEF Placed
      <3>3. x \in Known => x \in Known'
        BY <1>2, <2>2 DEF Known
      <3>4. Ending(x) => Ending(x)'
        BY <1>1, <1>5 DEF Ending
      <3> QED BY <3>1, <3>2, <3>3, <3>4
    <2> QED BY <1>2, <2>1, <2>2
  <1> QED BY <1>6, <1>7, <1>8 DEF ChargeInv

-----------------------------------------------------------------------------
LEMMA NextIInv == IInv /\ [Next]_vars => IInv'
  <1> SUFFICES ASSUME IInv, [Next]_vars PROVE IInv'
    OBVIOUS
  <1>1. ClientType /\ CallType /\ ClientInv /\ FileInv /\ ChargeInv
    BY TypeParts DEF IInv
  <1>2. ClientType' /\ ClientInv'
    <2>1. CASE UNCHANGED vars
      BY <1>1, <2>1, ClientUnchanged DEF vars, clientVars
    <2> QED BY <1>1, <2>1, OverdueClient, StepClient, RecordClient DEF Next
  <1>3. CallType' /\ FileInv'
    <2>1. CASE UNCHANGED vars
      BY <1>1, <2>1, FilesUnchanged DEF vars
    <2>2. CASE Overdue
      BY <1>1, <2>2, FilesUnchanged DEF Overdue
    <2>3. ASSUME NEW c \in Calls, Step(c) PROVE CallType' /\ FileInv'
      BY <1>1, <2>3, StepFiles
    <2>4. ASSUME NEW e \in events, Record(e) PROVE CallType' /\ FileInv'
      <3>1. UNCHANGED <<calls, deletions, files>>
        BY <2>4 DEF Record, RecordQuery, ReadRecordAtConsensusNode, ReadRecordAtMirrorNode, CaptureTransactionMetrics
      <3> QED BY <1>1, <3>1, FilesUnchanged
    <2> QED BY <2>1, <2>2, <2>3, <2>4 DEF Next
  <1>4. ChargeInv'
    <2>1. CASE UNCHANGED vars
      BY <1>1, <2>1, ChargesUnchanged DEF vars, chargeVars
    <2>2. CASE Overdue
      BY <1>1, <2>2, ChargesUnchanged DEF Overdue
    <2> QED BY <1>1, <2>1, <2>2, StepCharges, RecordCharges DEF Next
  <1> QED BY <1>2, <1>3, <1>4, TypePartsPrimed DEF IInv

(* The inductive invariant: types, the client, the files and the charges. *)
THEOREM Invariance == Spec => []IInv
  BY InitIInv, NextIInv, PTL DEF Spec

(* No client of HAPIService serves more than HAPI_CLIENT_TRANSACTION_RESET  *)
(* operations, more than one after it was too old or any after a status of  *)
(* HAPI_CLIENT_ERROR_RESET was reported, whatever calls, deletions, record  *)
(* queries and late error reports overlap.                                  *)
THEOREM ClientsRenewed == Spec => []ClientsAreRenewed
  <1>1. IInv => ClientsAreRenewed
    BY ConsensusAssumption DEF IInv, TypeOK, ClientInv, ClientsAreRenewed
  <1> QED BY <1>1, Invariance, PTL

(* A file outlives its call and its deletion only if the Ethereum           *)
(* transaction got no response or the deletion failed.                      *)
THEOREM FilesCaused == Spec => []FilesHaveCause
  <1>1. IInv => FilesHaveCause
    BY DEF IInv, TypeOK, FileInv, FilesHaveCause
  <1> QED BY <1>1, Invariance, PTL

(* What the network charged the operator reaches the expenses of the caller *)
(* or is on its way there, unless its record could not be read, addExpense  *)
(* rejected it, or the fee it follows, or it was charged to a step that     *)
(* ended its call, or its deletion, with an error.                          *)
THEOREM UnrecordedCaused == Spec => []UnrecordedHasCause
  <1>1. IInv => UnrecordedHasCause
    BY DEF IInv, ChargeInv, Ending, Known, UnrecordedHasCause
  <1> QED BY <1>1, Invariance, PTL
==============================================================================
