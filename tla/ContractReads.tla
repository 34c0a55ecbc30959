------------------------------ MODULE ContractReads ------------------------------
(***************************************************************************)
(* ContractService: the code and the storage of a contract at a block, and *)
(* eth_call and eth_estimateGas, which the mirror node evaluates.          *)
(***************************************************************************)
EXTENDS EthCommon

CONSTANTS
    CreatedAt,     \* of each address: the time it was created
    MaxGas         \* MAX_GAS_PER_SEC

HtsAddress == "hts"

(* The precompile at HtsAddress is not a contract of the mirror node. *)
ASSUME ContractReadsAssumption ==
    HtsAddress \notin DOMAIN CreatedAt /\ \A a \in DOMAIN CreatedAt : CreatedAt[a] \in Nat

(* A contract has one slot, which counts the calls that succeeded; storage  *)
(* and calls are evaluated after time t.                                    *)
SlotAt(a, t, h) ==
    Cardinality({id \in Transactions(h) :
                    Tx(id).to = a /\ Tx(id).result = "SUCCESS" /\ TimeOf(id) <= t})

Now == MaxBlocks * Slots

IsBlockParamValid(p) == p.tag # "hash"

(* A token has the code of a redirection, an account none. *)
GetCode(a, p, known, down, h) ==
    LET type == ResolveEntityType(a, {"contract", "token"}, known, down)
        n    == GetHistoricalBlockResponse(p, h, h)
    IN  IF ~IsBlockParamValid(p) THEN Err("UNKNOWN_BLOCK")
        ELSE IF a = HtsAddress   THEN Ok("invalid instruction")
        ELSE IF type = "null"    THEN Ok("empty")
        ELSE IF n = NoBlock \/ CreatedAt[a] > End(n) THEN Ok("empty")
        ELSE CASE type = "token"    -> Ok("redirect")
               [] type = "contract" -> Ok("code")
               [] OTHER             -> Ok("empty")

(* The latest state is asked for without a time. *)
GetStorageAt(a, p, h, g) ==
    LET n == GetHistoricalBlockResponse(p, h, h)
    IN  CASE BlockTagIsLatestOrPending(p) -> Ok(SlotAt(a, Now, g))
          [] ~BlockTagIsLatestOrPending(p) /\ n = NoBlock -> Err("RESOURCE_NOT_FOUND")
          [] OTHER -> Ok(SlotAt(a, End(n), g))

-----------------------------------------------------------------------------
(* eth_call.  A call is [to, from, value, gas], 0 or "none" for what was    *)
(* left out.                                                                *)

GetBlockNumberFromHash(k, h) ==
    IF GetBlock(k, h) = NoBlock THEN Err("RESOURCE_NOT_FOUND") ELSE Ok(Number(k))

(* A hash becomes the number of its block; a tag and a number are sent on.  *)
ExtractBlockNumberOrTag(p, h) ==
    IF p.tag = "hash" THEN GetBlockNumberFromHash(p.n, h) ELSE Ok(p)

GetCappedBlockGasLimit(gas) == IF gas > MaxGas THEN MaxGas ELSE gas

(* A call that sends value and names no sender is sent by the operator.     *)
ContractCallFormat(call) ==
    [call EXCEPT !.from = IF @ = "none" /\ call.value > 0 THEN "operator" ELSE @]

(* external: what the mirror node says to a call at a block: how it ends    *)
(* (outcome), and 404 when the block does not exist.                        *)
PostContractCall(call, p, outcome, h) ==
    LET n == IF p.tag = "number" THEN GetBlock(p.n, h) ELSE TranslateBlockTag(p, h)
        t == IF p.tag = "number" \/ p.tag = "earliest" THEN End(n) ELSE Now
    IN  IF n = NoBlock THEN HandleError("call", 404)
        ELSE IF outcome = "ok" THEN Ok(SlotAt(call.to, t, h)) ELSE Err(outcome)

HandleMirrorNodeClientError(e) ==
    CASE e \in {"FAIL_INVALID", "INVALID_TRANSACTION"} -> Ok("0x")
      [] e = "CONTRACT_REVERT_EXECUTED"                -> Err("CONTRACT_REVERT")
      [] e = "BAD_REQUEST"                             -> Err("COULD_NOT_SIMULATE_TRANSACTION")
      [] OTHER                                         -> Err(e)

(* The answer of the mirror node, or nothing, or the mapped error. *)
CallMirrorNode(call, p, outcome, h) ==
    LET answer == PostContractCall(call, p, outcome, h)
    IN  CASE answer.st = "ok"   -> answer
          [] answer.st = "null" -> Ok("0x")
          [] OTHER              -> HandleMirrorNodeClientError(answer.st)

Call(call, p, outcome, h, g) ==
    LET block == ExtractBlockNumberOrTag(p, h)
        sent  == [ContractCallFormat(call) EXCEPT !.gas = GetCappedBlockGasLimit(@)]
    IN  IF block.st # "ok" THEN block ELSE CallMirrorNode(sent, block.val, outcome, g)

(* eth_estimateGas: always at the latest block; FAIL_INVALID is an error.   *)
EstimateGas(call, outcome, h) ==
    LET answer == PostContractCall(ContractCallFormat(call), Tag("latest"), outcome, h)
    IN  CASE answer.st = "ok"   -> answer
          [] answer.st = "null" -> Ok("INTERNAL_ERROR")
          [] answer.st = "CONTRACT_REVERT_EXECUTED" -> Err("CONTRACT_REVERT")
          [] answer.st = "BAD_REQUEST" -> Err("COULD_NOT_SIMULATE_TRANSACTION")
          [] OTHER -> answer

-----------------------------------------------------------------------------
Outcomes == {"ok", "FAIL_INVALID", "CONTRACT_REVERT_EXECUTED", "BAD_REQUEST", "MIRROR_NODE"}

PlainCall(a) == [to |-> a, from |-> "none", value |-> 0, gas |-> 0]

(* eth_getStorageAt, eth_call and eth_getCode, asked about the same block   *)
(* by number or by hash, speak of the same moment, the end of the block,    *)
(* whatever was imported between their queries: storage and call agree, and *)
(* code is there from the block of its creation on.  A block that does not  *)
(* exist has no storage, and the call on its number answers 0x.             *)
StateAtBlock ==
    \A a \in DOMAIN CreatedAt, n \in 0 .. Len(chain), h \in Views, g \in Views :
      h <= g => LET storage(p) == GetStorageAt(a, p, h, g)
                    call(p)    == Call(PlainCall(a), p, "ok", h, g)
                    end        == SlotAt(a, End(n), 2 * Len(chain))
                    known      == n < Closed(h)
                IN
        /\ known => \A p \in {Number(n), Hash(n)} : storage(p) = Ok(end) /\ call(p) = Ok(end)
        /\ ~known => storage(Hash(n)) = Err("RESOURCE_NOT_FOUND")
                       /\ call(Hash(n)) = Err("RESOURCE_NOT_FOUND")
        /\ n >= Closed(g) => call(Number(n)) = Ok("0x")
        /\ known => \A p \in {Number(n)} :
             (GetCode(a, p, {}, {}, h).val \in {"code", "redirect"})
                <=> (EntityType[a] \in {"contract", "token"} /\ CreatedAt[a] <= End(n))
        /\ storage(Tag("latest")).val \in
             {SlotAt(a, Now, v) : v \in {w \in Views : h <= w /\ w <= g}}
        /\ \A e \in Outcomes \ {"ok", "FAIL_INVALID"} :
             known => Call(PlainCall(a), Number(n), e, h, g).st
                        = EstimateGas(PlainCall(a), e, g).st
=================================================================================
