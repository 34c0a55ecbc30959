------------------------------ MODULE RpcMethods ------------------------------
(***************************************************************************)
(* The JSON-RPC methods as their decorators describe them, the validation  *)
(* of their parameters, and the errors of the dispatcher.  A value of a    *)
(* request is [cls, val]: cls is the shape the regular expressions of      *)
(* validators/types.ts tell apart, val the value, for an object the        *)
(* function of its fields.                                                 *)
(***************************************************************************)
EXTENDS Integers, Sequences, FiniteSets, Functions

(* One function of several whose domains have nothing in common. *)
Join(fs) == [x \in UNION {DOMAIN f : f \in fs} |-> (CHOOSE f \in fs : x \in DOMAIN f)[x]]

Undefined == [cls |-> "undefined", val |-> "none"]

(* A quantity is 0x and an odd number of digits without leading zeros that is no unsafe integer; other hexadecimal         *)
(* strings are of 20 bytes, of 32 bytes or of more.                                                                         *)
Hexadecimal == {"quantity", "hex20", "hex32", "bytes"}

ScalarTypes ==
    [address |-> {"hex20"}, blockHash |-> {"hex32"}, blockNumber |-> {"quantity", "tag"}, boolean |-> {"boolean"},
     hex |-> Hexadecimal, hexEvenLength |-> Hexadecimal \ {"quantity"}, hex64 |-> Hexadecimal \ {"bytes"},
     topicHash |-> {"hex32", "null"}, transactionHash |-> {"hex32"}, tracerType |-> {"tracer"}, array |-> {"array"},
     stateOverride |-> {"object", "null"}]

AllOf(type, array) == \A i \in DOMAIN array : array[i].cls \in ScalarTypes[type]

(* Types whose test does not look into an object. *)
SimpleTest(type, p) ==
    CASE type = "addressFilter" -> p.cls \in ScalarTypes.address \/ (p.cls = "array" /\ AllOf("address", p.val))
      [] type = "topics" -> p.cls = "array" /\ AllOf("topicHash", p.val)
      [] OTHER -> p.cls \in ScalarTypes[type]

-----------------------------------------------------------------------------
(* OBJECTS_VALIDATIONS: strict objects may have no other field, and one that is nonEmpty needs a known one. *)

Booleans(fields) == [f \in fields |-> "boolean"]

RequestSchemas ==
    [blockHashObject |-> [strict |-> TRUE, nonEmpty |-> FALSE, nullable |-> {}, props |-> [blockHash |-> "blockHash"]],
     blockNumberObject |-> [strict |-> TRUE, nonEmpty |-> FALSE, nullable |-> {}, props |-> [blockNumber |-> "blockNumber"]],
     filter |-> [strict |-> TRUE, nonEmpty |-> FALSE, nullable |-> {},
                 props |-> [blockHash |-> "blockHash", fromBlock |-> "blockNumber", toBlock |-> "blockNumber",
                            address |-> "addressFilter", topics |-> "topics"]]]

OpcodeOptions == {"enableMemory", "disableStack", "disableStorage", "fullStorage"}

TracerSchemas ==
    [callTracerConfig |-> [strict |-> FALSE, nonEmpty |-> TRUE, nullable |-> {}, props |-> Booleans({"onlyTopCall"})],
     opcodeLoggerConfig |-> [strict |-> FALSE, nonEmpty |-> TRUE, nullable |-> {},
                             props |-> Booleans({"disableMemory"} \cup OpcodeOptions)],
     tracerConfigWrapper |-> [strict |-> TRUE, nonEmpty |-> TRUE, nullable |-> {},
                              props |-> Join({[tracer |-> "tracerType", tracerConfig |-> "tracerConfig"], Booleans(OpcodeOptions)})]]

TransactionSchemas ==
    [transaction |-> [strict |-> FALSE, nonEmpty |-> FALSE, nullable |-> {"to", "data"},
                      props |-> Join({[from |-> "address", to |-> "address", data |-> "hexEvenLength", accessList |-> "array"],
                                      [f \in {"gas", "gasPrice", "maxPriorityFeePerGas", "maxFeePerGas", "value", "type",
                                              "chainId", "nonce", "input"} |-> "hex"]})],
     ethSubscribeLogsParams |-> [strict |-> TRUE, nonEmpty |-> FALSE, nullable |-> {},
                                 props |-> [address |-> "addressFilter", topics |-> "topics"]]]

Schemas == Join({RequestSchemas, TracerSchemas, TransactionSchemas})

(* validateObject: the known fields of an object are of their types. *)
FieldsOk(name, o) ==
    LET s == Schemas[name]
    IN  \A f \in DOMAIN o \cap DOMAIN s.props :
            (o[f].cls = "null" /\ f \in s.nullable) \/ SimpleTest(s.props[f], o[f])

Known(name, o) == DOMAIN o \cap DOMAIN Schemas[name].props

ValidateSchema(name, o) ==
    /\ Schemas[name].strict => DOMAIN o = Known(name, o)
    /\ FieldsOk(name, o)
    /\ Schemas[name].nonEmpty => Known(name, o) # {}

(* deleteUnknownProperties: what is left of a transaction. *)
Cleaned(type, p) ==
    IF type = "transaction" /\ p.cls = "object" THEN [p EXCEPT !.val = Restrict(@, Known("transaction", @))] ELSE p

(* A tracerConfig may mix the options of both tracers; each must be of its type. *)
TracerConfigTest(o) ==
    \/ o = <<>>
    \/ /\ FieldsOk("callTracerConfig", o) /\ FieldsOk("opcodeLoggerConfig", o)
       /\ Known("callTracerConfig", o) \cup Known("opcodeLoggerConfig", o) # {}

(* validateTracerConfigWrapper: options at one level only, and of the tracer that is named. *)
TracerConfigWrapperTest(o) ==
    LET nested == IF "tracerConfig" \in DOMAIN o THEN o.tracerConfig.val ELSE <<>>
        opcode == "tracer" \in DOMAIN o /\ o.tracer.val = "opcodeLogger"
    IN  /\ DOMAIN o # {} /\ DOMAIN o = Known("tracerConfigWrapper", o)
        /\ \A f \in DOMAIN o \ {"tracerConfig"} : SimpleTest(Schemas.tracerConfigWrapper.props[f], o[f])
        /\ "tracerConfig" \in DOMAIN o => o.tracerConfig.cls = "object" /\ TracerConfigTest(nested)
        /\ Known("opcodeLoggerConfig", o) # {} => DOMAIN o \cap {"tracer", "tracerConfig"} = {}
        /\ Known("callTracerConfig", nested) # {} => ~opcode
        /\ Known("opcodeLoggerConfig", nested) # {} => opcode

(* TYPES[type].test; a test that throws refuses the parameter too. *)
TypeTest(type, p) ==
    CASE type = "blockParams" /\ p.cls = "object" ->
            ValidateSchema(IF "blockHash" \in DOMAIN p.val THEN "blockHashObject" ELSE "blockNumberObject", p.val)
      [] type = "blockParams" /\ p.cls # "object" -> p.cls \in ScalarTypes.blockNumber
      [] type = "filter" ->
            /\ p.cls = "object" /\ ValidateSchema("filter", p.val)
            /\ "blockHash" \in DOMAIN p.val => DOMAIN p.val \cap {"fromBlock", "toBlock"} = {}
      [] type = "transaction" -> p.cls = "object" /\ ValidateSchema("transaction", p.val)
      [] type = "tracerConfigWrapper" -> p.cls = "object" /\ TracerConfigWrapperTest(p.val)
      [] OTHER -> SimpleTest(type, p)

-----------------------------------------------------------------------------
(* The methods: the types each parameter may have and whether it is required, how parameters are handed on, what keeps a   *)
(* result out of the cache, and how the result depends on the chain (kind, see MethodCache).                               *)

Required(types) == [types |-> types, required |-> TRUE]

Optional(types) == [types |-> types, required |-> FALSE]

BlockNumber == Required({"blockNumber"})

BlockHash == Required({"blockHash"})

BlockNumberOrHash == Required({"blockNumber", "blockHash"})

NoCache == [cached |-> FALSE, skip |-> 0, named |-> {}]

Cache == [cached |-> TRUE, skip |-> 0, named |-> {}]

SkipParam(i) == [cached |-> TRUE, skip |-> i, named |-> {}]

(* rules is the empty sequence for a method without validation rules. *)
Method(kind, rules, layout, cache) ==
    [kind |-> kind, validated |-> rules # <<>>, rules |-> rules, layout |-> layout, cache |-> cache]

Plain(kind) == Method(kind, <<>>, "details", NoCache)

All(names, method) == [n \in names |-> method]

EthNetworkMethods == Join({
    All({"eth_accounts", "eth_chainId", "eth_mining"}, Plain("constant")),
    All({"eth_blockNumber", "eth_gasPrice"}, Plain("head")),
    All({"eth_feeHistory"}, Method("history", <<Required({"hex"}), BlockNumber, Optional({"array"})>>, "custom", SkipParam(2))),
    All({"eth_estimateGas"}, Method("head", <<Required({"transaction"}), Optional({"blockNumber"})>>, "custom", NoCache))})

EthFilterMethods == Join({
    All({"eth_newFilter"}, Method("filter", <<Required({"filter"})>>, "default", NoCache)),
    All({"eth_getFilterLogs", "eth_getFilterChanges", "eth_uninstallFilter"},
        Method("filter", <<Required({"hex"})>>, "default", NoCache)),
    All({"eth_newBlockFilter"}, Plain("filter")),
    All({"eth_newPendingTransactionFilter"}, Plain("unsupported")),
    All({"eth_submitWork", "eth_syncing"}, Plain("constant"))})

EthUncleMethods == Join({
    All({"eth_getUncleByBlockHashAndIndex"},
        Method("constant", <<Optional({"blockHash"}), Optional({"hex"})>>, "default", NoCache)),
    All({"eth_getUncleByBlockNumberAndIndex"},
        Method("constant", <<Optional({"blockNumber"}), Optional({"hex"})>>, "default", NoCache)),
    All({"eth_getUncleCountByBlockHash"}, Method("constant", <<Optional({"blockHash"})>>, "default", NoCache)),
    All({"eth_getUncleCountByBlockNumber"}, Method("constant", <<Optional({"blockNumber"})>>, "default", NoCache)),
    All({"eth_hashrate"}, Plain("constant"))})

EthUnsupportedMethods ==
    All({"eth_getWork", "eth_submitHashrate", "eth_signTransaction", "eth_sign", "eth_sendTransaction", "eth_protocolVersion",
         "eth_coinbase", "eth_simulateV1", "eth_blobBaseFee"}, Plain("unsupported"))

EthStateMethods == Join({
    All({"eth_getStorageAt"},
        Method("storage", <<Required({"address"}), Required({"hex64"}), BlockNumberOrHash>>, "custom", SkipParam(3))),
    All({"eth_getBalance"}, Method("balance", <<Required({"address"}), BlockNumberOrHash>>, "default", SkipParam(2))),
    All({"eth_getCode"}, Method("code", <<Required({"address"}), BlockNumberOrHash>>, "default", SkipParam(2)))})

EthBlockMethods == Join({
    All({"eth_getBlockByHash"}, Method("block", <<BlockHash, Required({"boolean"})>>, "default", Cache)),
    All({"eth_getBlockTransactionCountByHash"}, Method("count", <<BlockHash>>, "default", Cache)),
    All({"eth_getBlockTransactionCountByNumber"}, Method("count", <<BlockNumber>>, "default", SkipParam(1))),
    All({"eth_getTransactionByBlockHashAndIndex"}, Method("entry", <<BlockHash, Required({"hex"})>>, "default", Cache)),
    All({"eth_getTransactionByBlockNumberAndIndex"},
        Method("entry", <<BlockNumber, Required({"hex"})>>, "default", SkipParam(1)))})

EthCallMethods == Join({
    All({"eth_getBlockByNumber"}, Method("block", <<BlockNumber, Required({"boolean"})>>, "default", SkipParam(1))),
    All({"eth_getTransactionCount"}, Method("nonce", <<Required({"address"}), BlockNumberOrHash>>, "default", SkipParam(2))),
    All({"eth_sendRawTransaction"}, Method("send", <<Required({"hex"})>>, "default", NoCache)),
    All({"eth_call"},
        Method("call", <<Required({"transaction"}), Required({"blockParams"}), Optional({"stateOverride"})>>, "default",
               SkipParam(2)))})

EthLogMethods == Join({
    All({"eth_getTransactionByHash", "eth_getTransactionReceipt"},
        Method("entry", <<Required({"transactionHash"})>>, "default", Cache)),
    All({"eth_getLogs"},
        Method("logs", <<Required({"filter"})>>, "default", [cached |-> TRUE, skip |-> 0, named |-> {"fromBlock", "toBlock"}]))})

EthReceiptMethods == Join({
    All({"eth_maxPriorityFeePerGas"}, Plain("constant")),
    All({"eth_getBlockReceipts"}, Method("entry", <<BlockNumberOrHash>>, "default", SkipParam(1))),
    All({"eth_getProof", "eth_createAccessList"}, Plain("unsupported"))})

DebugMethods == Join({
    All({"debug_traceTransaction"},
        Method("trace", <<Required({"transactionHash"}), Optional({"tracerConfigWrapper"})>>, "custom", Cache)),
    All({"debug_traceBlockByNumber"},
        Method("trace", <<BlockNumber, Optional({"tracerConfigWrapper"})>>, "custom", SkipParam(1)))})

OtherMethods == Join({
    All({"net_listening", "net_version", "web3_clientVersion"}, Method("constant", <<>>, "default", NoCache)),
    All({"net_peerCount"}, Method("unsupported", <<>>, "default", NoCache)),
    All({"web3_sha3"}, Method("constant", <<Required({"hex"})>>, "default", NoCache)),
    All({"txpool_content", "txpool_status"}, [Method("pool", <<>>, "default", NoCache) EXCEPT !.validated = TRUE]),
    All({"txpool_contentFrom"}, Method("pool", <<Required({"address"})>>, "default", NoCache))})

(* registerRpcMethods *)
Registry ==
    Join({EthNetworkMethods, EthFilterMethods, EthUncleMethods, EthUnsupportedMethods, EthStateMethods, EthBlockMethods,
          EthCallMethods, EthLogMethods, EthReceiptMethods, DebugMethods, OtherMethods})

-----------------------------------------------------------------------------
ParamAt(params, i) == IF i \in DOMAIN params THEN params[i] ELSE Undefined

ValidateParam(p, rule) ==
    IF p = Undefined THEN ~rule.required
    ELSE p.cls # "null" /\ \E type \in rule.types : TypeTest(type, p)

ValidateParams(params, rules) ==
    /\ Len(params) <= Len(rules)
    /\ \A i \in DOMAIN rules : ValidateParam(ParamAt(params, i), rules[i])

(* arrangeRpcParams: what the method is called with, besides the request details. *)
ArrangeRpcParams(method, params) ==
    LET cleaned == [i \in DOMAIN params |->
                        IF i \in DOMAIN method.rules /\ "transaction" \in method.rules[i].types
                        THEN Cleaned("transaction", params[i]) ELSE params[i]]
    IN  CASE method.layout = "details" -> <<>>
          [] method.layout = "custom" -> [i \in DOMAIN method.rules |-> ParamAt(cleaned, i)]
          [] OTHER -> cleaned

(* throwUnregisteredRpcMethods, by the namespace of the method. *)
Unregistered(namespace) ==
    CASE namespace = "engine" -> "UNSUPPORTED_METHOD"
      [] namespace \in {"trace", "debug"} -> "NOT_YET_IMPLEMENTED"
      [] OTHER -> "METHOD_NOT_FOUND"

(* handleRpcMethodError: a JSON-RPC error is answered as it is. *)
HandleRpcMethodError(e) ==
    CASE e = "SDKClientError timeout" -> "REQUEST_TIMEOUT"
      [] e = "SDKClientError" -> "CONSENSUS_NODE_ERROR"
      [] e = "MirrorNodeClientError" -> "MIRROR_NODE_UPSTREAM_FAIL"
      [] e = "Error" -> "INTERNAL_ERROR"
      [] OTHER -> e
================================================================================
