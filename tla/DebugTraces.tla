------------------------------- MODULE DebugTraces -------------------------------
(***************************************************************************)
(* DebugImpl: the traces of a transaction and of the transactions of a     *)
(* block.  A transaction that ran in the EVM has actions, each <<from, to, *)
(* depth>>; one that was refused before has none.                          *)
(***************************************************************************)
EXTENDS BlockReads

CONSTANTS
    MaxPagination,      \* MAX_MIRROR_NODE_PAGINATION
    DebugEnabled,       \* DEBUG_API_ENABLED
    OpcodesEnabled      \* OPCODELOGGER_ENABLED

ActionsOf(id, h) == IF id \in Transactions(h) THEN Tx(id).actions ELSE <<>>

(* The actions in their order, unless they fill the pages. *)
GetContractsResultsActions(id, h) ==
    LET actions == ActionsOf(id, h)
        read    == GetPaginatedResults({<<i>> : i \in DOMAIN actions}, MaxPagination)
    IN  IF read.st = "ok" THEN Ok(actions) ELSE read

(* The views of the queries of one trace: the actions are read beside the   *)
(* contract result and its retries, the logs after both.                    *)
At(h) == [actions |-> h, result |-> Repeat(h), logs |-> Repeat(h)]

(* A token has no EVM address in its entity. *)
ResolveAddress(a, known, down) ==
    IF ResolveEntityType(a, AllTypes, known, down) \in {"contract", "account"}
    THEN EvmAddress[a] ELSE a

FormatActionsResult(actions, known, down) ==
    [i \in DOMAIN actions |-> [from |-> ResolveAddress(actions[i][1], known, down),
                               to   |-> ResolveAddress(actions[i][2], known, down)]]

(* A transaction without a result or actions is traced by its first log:    *)
(* between the parties of a transfer, that are topics of the log, or from   *)
(* the contract to itself.                                                  *)
PartiesOf(log) ==
    IF Tx(IdOf(log)).from = "none" THEN <<AddressOf(log), AddressOf(log)>>
    ELSE <<Tx(IdOf(log)).from, Tx(IdOf(log)).to>>

HandleSyntheticTransaction(id, tracer, known, down, views) ==
    LET found   == GetLogsOfTransaction(id, views)
        parties == PartiesOf(Sorted(found.val, LogPrecedes)[1])
    IN  IF found.st # "ok" THEN found
        ELSE IF found.val = {} THEN Err("RESOURCE_NOT_FOUND")
        ELSE IF tracer = "callTracer"
             THEN Ok([from |-> ResolveAddress(parties[1], known, down),
                      to |-> ResolveAddress(parties[2], known, down), calls |-> <<>>])
        ELSE Ok([none |-> TRUE])

(* The actions are read once, the contract result with retries beside them. *)
CallTracer(id, top, known, down, at) ==
    LET actions == GetContractsResultsActions(id, at.actions)
        result  == GetContractResultWithRetry(id, at.result)
        calls   == FormatActionsResult(actions.val, known, down)
    IN  IF actions.st # "ok" THEN actions
        ELSE IF result.st \notin {"ok", "null"} THEN result
        ELSE IF actions.val = <<>> \/ result.st = "null"
             THEN HandleSyntheticTransaction(id, "callTracer", known, down, at.logs)
        ELSE Ok([from  |-> ResolveAddress(Tx(id).from, known, down),
                 to    |-> ResolveAddress(Tx(id).to, known, down),
                 calls |-> IF top \/ Len(calls) = 1 THEN <<>> ELSE Tail(calls)])

(* The entities an execution touched, each looked for with its type alone;  *)
(* the ones that could not be resolved are left out.  The result is cached  *)
(* for later calls (cached: as it was, or Null).                            *)
PrestateTracer(id, top, cached, down, at) ==
    LET read    == GetContractsResultsActions(id, at.actions)
        actions == SelectSeq(read.val, LAMBDA x : ~top \/ x[3] = 0)
        touched == UNION {{actions[i][1], actions[i][2]} : i \in DOMAIN actions}
        kept    == {a \in touched : ResolveEntityType(a, {EntityType[a]}, {}, down)
                                       \in {"contract", "account"}}
    IN  IF cached # Null THEN cached
        ELSE IF read.st # "ok" THEN read
        ELSE IF read.val = <<>>
             THEN HandleSyntheticTransaction(id, "prestateTracer", {}, down, at.logs)
        ELSE Ok({EvmAddress[a] : a \in kept})

(* The opcodes come in one answer. *)
CallOpcodeLogger(id, down, at) ==
    IF ActionsOf(id, at.actions) = <<>>
    THEN HandleSyntheticTransaction(id, "opcodeLogger", {}, down, at.logs)
    ELSE Ok(Len(Tx(id).actions))

TraceTransaction(id, tracer, top, cached, known, down, at) ==
    IF ~DebugEnabled THEN Err("UNSUPPORTED_METHOD")
    ELSE CASE tracer = "callTracer"     -> CallTracer(id, top, known, down, at)
           [] tracer = "prestateTracer" -> PrestateTracer(id, top, cached, down, at)
           [] OTHER -> IF OpcodesEnabled THEN CallOpcodeLogger(id, down, at)
                       ELSE Err("UNSUPPORTED_METHOD")

(* Mutant: the transactions that have logs only are forgotten. *)
ResultHashesOnly(n, rh, lh) ==
    LET results == GetContractResultsWithRetry(<<Start(n), End(n)>>, Repeat(rh))
    IN  IF results.st # "ok" THEN results
        ELSE Ok({id \in results.val : Tx(id).result # "WRONG_NONCE"})

(* The results and the logs are read side by side, at the views rh and lh.  *)
(* Of the results refused by Hedera only WRONG_NONCE is left out.           *)
GetAllTransactionHashesFromBlock(n, rh, lh) ==
    LET range   == <<Start(n), End(n)>>
        results == GetContractResultsWithRetry(range, Repeat(rh))
        logs    == GetContractResultsLogsWithRetry(range, Repeat(lh))
    IN  IF results.st # "ok" THEN results
        ELSE IF logs.st # "ok" THEN logs
        ELSE Ok({id \in results.val : Tx(id).result # "WRONG_NONCE"}
                  \cup {IdOf(log) : log \in logs.val})

(* One trace that fails fails them all.  vs: the views of the block, its    *)
(* results, its logs, and of the traces.                                    *)
TraceBlockByNumber(p, tracer, top, known, down, vs) ==
    LET n      == GetHistoricalBlockResponse(p, vs[1], vs[1])
        ids    == GetAllTransactionHashesFromBlock(n, vs[2], vs[3])
        of(id) == TraceTransaction(id, tracer, top, Null, known, down, At(vs[4]))
        failed == {id \in ids.val : of(id).st # "ok"}
    IN  IF ~DebugEnabled  THEN Err("UNSUPPORTED_METHOD")
        ELSE IF n = NoBlock THEN Err("RESOURCE_NOT_FOUND")
        ELSE IF ids.st # "ok" THEN ids
        ELSE IF ids.val = {} \/ tracer = "opcodeLogger" THEN Ok(<<>>)
        ELSE IF failed # {} THEN of(CHOOSE id \in failed : TRUE)
        ELSE Ok([id \in ids.val |-> of(id).val])

-----------------------------------------------------------------------------
ManyActions(id) == Pages(DOMAIN Tx(id).actions) >= MaxPagination

(* The trace names the sender and the receiver of the transaction and has   *)
(* every call but the first.                                                *)
FullTrace(t, id) ==
    /\ t.from = ResolveEvmAddress(Tx(id).from, AllTypes, {}, {})
    /\ t.to = ResolveEvmAddress(Tx(id).to, AllTypes, {}, {})
    /\ Len(t.calls) = Len(Tx(id).actions) - 1

(* The views before the records of block n, with its records, and with it.  *)
Around(n) == {h \in Views : 2 * n <= h /\ h <= 2 * n + 2}

(* What was read of a transaction while it was imported. *)
TracedDuringImport(id) ==
    \A ah, r1, r2, lh \in Around(id[1]) :
      r1 <= r2 /\ r2 <= lh /\ ah <= lh =>
        LET at == [actions |-> ah, result |-> [k \in 1 .. RetryCount |-> IF k = 1 THEN r1 ELSE r2],
                   logs |-> Repeat(lh)]
            t  == CallTracer(id, FALSE, {}, {}, at)
            early == {ah, r1} \cap {h \in Views : id \notin Transactions(h)} # {}
        IN  /\ t.st = "ok" => Mature(id, lh) /\ (FullTrace(t.val, id) \/ (early /\ t.val.calls = <<>>))
            /\ t.st = "PAGINATION_MAX" => ManyActions(id)
            /\ Mature(id, r2) /\ ~early /\ ~ManyActions(id) => t.st = "ok"

(* The trace of a closed block has the transactions of the block, and those *)
(* that Hedera refused for another reason than the nonce; as these have no  *)
(* actions, one of them makes the block untraceable, and so does one with   *)
(* more actions than are read.  Whatever was imported between the queries,  *)
(* the trace of a closed block is the same.  A call trace names the sender  *)
(* of the receipt and its receiver, or the contract that was created        *)
(* instead of none, and has all calls; it lacks calls only when the         *)
(* transaction was imported after its actions or its result were read, and  *)
(* is never of a block that is not closed.  A prestate has all that the     *)
(* execution touched, unless a look-up failed.                              *)
TracesAgree ==
    /\ \A n \in 0 .. Len(chain) - 1, rh \in Views, lh \in Views :
         n < Closed(rh) /\ n < Closed(lh) =>
           LET refused == {id \in Transactions(Whole) : id[1] = n /\ Tx(id).kind = "eth"
                             /\ IsRevertedDueToHederaSpecificValidation(id)
                             /\ Tx(id).result # "WRONG_NONCE"}
               many    == {id \in Listed(n) : ManyActions(id)}
               t == TraceBlockByNumber(Number(n), "callTracer", FALSE, {}, {},
                                       <<IF rh < lh THEN rh ELSE lh, rh, lh, Whole>>)
           IN  IF refused \cup many # {}
               THEN \/ t.st = "RESOURCE_NOT_FOUND" /\ refused # {}
                    \/ t.st = "PAGINATION_MAX" /\ many # {}
               ELSE /\ t.st = "ok" /\ DOMAIN t.val = (IF Listed(n) = {} THEN {} ELSE Listed(n))
                    /\ \A id \in DOMAIN t.val : Tx(id).kind = "eth" => FullTrace(t.val[id], id)
    /\ \A id \in Transactions(Whole) :
         Tx(id).kind = "eth" /\ Tx(id).actions # <<>> =>
           LET r  == GetTransactionReceipt(id, {}, {}, Repeat(Whole)).val
               to == ResolveEvmAddress(Tx(id).to, AllTypes, {}, {})
               prestate(down) == PrestateTracer(id, FALSE, Null, down, At(Whole)).val
           IN  /\ TracedDuringImport(id)
               /\ r.to = IF Tx(id).created THEN "none" ELSE to
               /\ ~ManyActions(id) =>
                    /\ {r.from, to} \subseteq prestate({})
                    /\ EntityType[Tx(id).to] = "contract" => to \notin prestate({"contract"})
=================================================================================
