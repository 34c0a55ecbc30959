-------------------------------- MODULE Filters --------------------------------
(***************************************************************************)
(* FilterService: log and block filters kept in the cache under their id,  *)
(* and the requests on them.  A request reads the filter first (Ask),      *)
(* makes its queries at views between then and now, and writes the filter  *)
(* back or deletes it last (Answer): requests of one filter overlap one    *)
(* another and the import of blocks.  With Redis the write or the delete   *)
(* may fail, which SafeRedisCache logs and the request does not see; a     *)
(* read that fails finds no filter, and a filter whose first write fails   *)
(* never was.                                                              *)
(***************************************************************************)
EXTENDS EthCommon

CONSTANTS
    FilterIds,      \* the ids createFilter may give
    Requests,       \* requests that may be in flight together
    FromBlocks,     \* values of fromBlock of eth_newFilter
    ToBlocks,       \* values of toBlock of eth_newFilter
    Enabled,        \* FILTER_API_ENABLED
    Redis,          \* the cache is Redis
    MaxFaults       \* bound on the commands that fail

(* A bound is a number or a tag; one that is left out is latest. *)
Bounds == [tag : {"number", "latest", "pending", "safe", "finalized", "earliest"}, n : Nat]

ASSUME FiltersAssumption ==
    \A p \in FromBlocks \cup ToBlocks : p \in Bounds /\ (p.tag = "number" \/ p = Tag(p.tag))

VARIABLES
    filters,    \* the cache: id -> the filter, while it is there
    requests,   \* request -> what it read and when it began
    answered,   \* id -> the blocks that were in answers of getFilterChanges
    excused,    \* id -> blocks that may be left out, see Excuse
    disturbed,  \* ids of which two requests were in flight together, or a write failed
    repeated,   \* ids of which a block was in two answers
    removed,    \* ids that were uninstalled or ran out
    retained,   \* ids that had a request in flight then, or could not be deleted
    faults      \* commands that failed

ghosts == <<answered, excused, disturbed, repeated, removed, retained, faults>>

fvars == <<filters, requests, ghosts>>

filterVars == <<chain, fvars>>

NoQuery == -1       \* lastQueried is null

Kinds == {"getFilterLogs", "getFilterChanges", "uninstallFilter"}

Idle == [kind |-> "none", id |-> "none", read |-> <<>>, began |-> 0]

InFlight(id) == {r \in Requests : requests[r].kind # "none" /\ requests[r].id = id}

(* The filters that could be read: the domain of the cache. *)
Cached(id) == id \in DOMAIN filters

Without(f, id) == [x \in DOMAIN f \ {id} |-> f[x]]

With(f, id, v) == [x \in DOMAIN f \cup {id} |-> IF x = id THEN v ELSE f[x]]

-----------------------------------------------------------------------------
FilterInit ==
    /\ ChainInit
    /\ filters = <<>>
    /\ requests = [r \in Requests |-> Idle]
    /\ answered = [i \in FilterIds |-> {}]
    /\ excused = [i \in FilterIds |-> {}]
    /\ disturbed = {} /\ repeated = {} /\ removed = {} /\ retained = {} /\ faults = 0

(* A command to the cache, which fails or not. *)
Command(fails) ==
    IF fails THEN Redis /\ faults < MaxFaults /\ faults' = faults + 1 ELSE UNCHANGED faults

UpdateFilterCache(id, f, fails) ==
    /\ Command(fails)
    /\ filters' = IF fails THEN filters ELSE With(filters, id, f)
    /\ disturbed' = IF fails THEN disturbed \cup {id} ELSE disturbed

CreateFilter(id, f) ==
    /\ Enabled
    /\ ~Cached(id) /\ id \notin removed
    /\ filters' = With(filters, id, f)
    /\ UNCHANGED <<chain, requests, ghosts>>

(* The range is validated, and `latest` becomes the number of the block     *)
(* that is the latest a moment later; the other tags stay as they are.      *)
NewFilter(id, from, to) ==
    LET h == 2 * Len(chain) IN
    /\ ValidateBlockRange(from, to, <<h, h, h>>) = "ok"
    /\ CreateFilter(id, [type |-> "log", to |-> to, lastQueried |-> NoQuery,
                         from |-> IF from = Tag("latest")
                                  THEN Number(GetLatestBlockNumber(h)) ELSE from])

NewBlockFilter(id) ==
    CreateFilter(id, [type |-> "newBlock", to |-> Tag("latest"), lastQueried |-> NoQuery,
                      from |-> Number(GetLatestBlockNumber(2 * Len(chain)))])

(* A request reads the filter; one that is not there, or is of the wrong    *)
(* type, is answered at once (FILTER_NOT_FOUND, or false).  All that        *)
(* uninstallFilter needs of it is that it was there.                        *)
Ask(r, kind, id) ==
    /\ Enabled
    /\ requests[r].kind = "none"
    /\ Cached(id)
    /\ kind = "getFilterLogs" => filters[id].type = "log"
    /\ requests' = [requests EXCEPT ![r] =
                      IF kind = "uninstallFilter" THEN [Idle EXCEPT !.kind = kind, !.id = id]
                      ELSE [kind |-> kind, id |-> id, read |-> <<filters[id]>>, began |-> Len(chain)]]
    /\ disturbed' = IF InFlight(id) = {} THEN disturbed ELSE disturbed \cup {id}
    /\ UNCHANGED <<chain, filters, answered, excused, repeated, removed, retained, faults>>

-----------------------------------------------------------------------------
(* The queries of a request. *)

(* The views of a request that began at b: of the first block of the range, *)
(* of the last one (and its logs, which do not change any more), and of the *)
(* latest block afterwards.                                                 *)
ViewsSince(b) ==
    {vs \in {<<2 * f, 2 * f, 2 * t, 2 * t, 2 * l>> : f, t, l \in b .. Len(chain)} : vs[2] <= vs[3] /\ vs[4] <= vs[5]}

(* Mutant: every request begins anew. *)
CursorStays(f) == f.from

Cursor(f) == IF f.lastQueried > 0 THEN Number(f.lastQueried) ELSE f.from

BlocksOf(logs) == {logs[i][1] : i \in DOMAIN logs}

(* Mutant: the last block is asked for again. *)
HandleLogRepeatsABlock(f, vs) ==
    LET logs == GetLogs(Cursor(f), f.to, <<>>, vs)
    IN  [st |-> logs.st, blocks |-> IF logs.st = "ok" THEN BlocksOf(logs.val) ELSE {},
         next |-> GetLatestBlockNumber(vs[3])]

(* The logs from the cursor on, and the block after the last of them, or    *)
(* after the latest block as it is read then.                               *)
HandleLogFilterChanges(f, vs) ==
    LET logs == GetLogs(Cursor(f), f.to, <<>>, vs)
    IN  [st     |-> logs.st,
         blocks |-> IF logs.st = "ok" THEN BlocksOf(logs.val) ELSE {},
         next   |-> 1 + IF logs.st = "ok" /\ logs.val # <<>>
                        THEN logs.val[Len(logs.val)][1] ELSE GetLatestBlockNumber(vs[5])]

(* Mutant: the filter moves on to the latest block although its page ended. *)
HandleNewBlockSkipsPages(f, vs) ==
    [st |-> "ok", blocks |-> GetBlocksAfter(Cursor(f).n, vs[4]),
     next |-> GetLatestBlockNumber(vs[4])]

HandleNewBlockFilterChanges(f, vs) ==
    LET blocks == GetBlocksAfter(Cursor(f).n, vs[4])
    IN  [st     |-> "ok",
         blocks |-> blocks,
         next   |-> IF blocks # {} THEN CHOOSE b \in blocks : \A c \in blocks : b >= c
                    ELSE GetLatestBlockNumber(vs[5])]

Changes(f, vs) ==
    IF f.type = "log" THEN HandleLogFilterChanges(f, vs) ELSE HandleNewBlockFilterChanges(f, vs)

Done(r) == requests' = [requests EXCEPT ![r] = Idle]

(* What a request of this code may leave out: the blocks imported while it  *)
(* was in flight, and everything when toBlock was not there yet.            *)
Excuse(r, f) ==
    IF f.to.tag = "number" /\ f.to.n >= requests[r].began
    THEN 0 .. Len(chain) - 1 ELSE requests[r].began .. Len(chain) - 1

(* The answer is given after the filter was written back, or could not be;  *)
(* a query that fails leaves the filter as it is.                           *)
GetFilterChanges(r) ==
    /\ requests[r].kind = "getFilterChanges"
    /\ Done(r)
    /\ LET id == requests[r].id
           f  == requests[r].read[1]
       IN  \E res \in {Changes(f, vs) : vs \in ViewsSince(requests[r].began)}, fails \in BOOLEAN :
             IF res.st = "ok"
             THEN /\ UpdateFilterCache(id, [f EXCEPT !.lastQueried = res.next], fails)
                  /\ answered' = [answered EXCEPT ![id] = @ \cup res.blocks]
                  /\ excused' = [excused EXCEPT ![id] =
                                     (@ \cup IF fails THEN {} ELSE Excuse(r, f)) \ (answered[id] \cup res.blocks)]
                  /\ repeated' = IF res.blocks \cap answered[id] = {}
                                 THEN repeated ELSE repeated \cup {id}
             ELSE UNCHANGED <<filters, answered, excused, disturbed, repeated, faults>>
    /\ UNCHANGED <<chain, removed, retained>>

(* All logs of the filter; it is written back only to live longer, so that  *)
(* nothing is missing when that fails.                                      *)
GetFilterLogs(r) ==
    /\ requests[r].kind = "getFilterLogs"
    /\ Done(r)
    /\ \/ \E vs \in ViewsSince(requests[r].began) :
            LET f == requests[r].read[1] IN
            /\ GetLogs(f.from, f.to, <<>>, vs).st = "ok"
            /\ filters' = With(filters, requests[r].id, f)
       \/ /\ Redis \/ \E vs \in ViewsSince(requests[r].began) :
                 GetLogs(requests[r].read[1].from, requests[r].read[1].to, <<>>, vs).st # "ok"
          /\ UNCHANGED filters
    /\ UNCHANGED <<chain, ghosts>>

RemoveFilter(id, others, fails) ==
    /\ Command(fails)
    /\ filters' = IF fails THEN filters ELSE Without(filters, id)
    /\ removed' = removed \cup {id}
    /\ retained' = IF fails \/ others # {} THEN retained \cup {id} ELSE retained
    /\ UNCHANGED <<chain, answered, excused, disturbed, repeated>>

(* The answer is true, whether the delete failed or not. *)
UninstallFilter(r) ==
    /\ requests[r].kind = "uninstallFilter"
    /\ Done(r)
    /\ \E fails \in BOOLEAN :
         RemoveFilter(requests[r].id, InFlight(requests[r].id) \ {r}, fails)

(* The TTL of a filter runs out. *)
Expire(id) ==
    /\ Cached(id)
    /\ RemoveFilter(id, InFlight(id), FALSE)
    /\ UNCHANGED requests

ImportBlock == (\E c \in BlockContents : Import(c)) /\ UNCHANGED fvars

FilterNext ==
    \/ ImportBlock
    \/ \E id \in FilterIds :
         \/ \E from \in FromBlocks, to \in ToBlocks : NewFilter(id, from, to)
         \/ NewBlockFilter(id)
         \/ Expire(id)
         \/ \E r \in Requests, kind \in Kinds : Ask(r, kind, id)
    \/ \E r \in Requests : GetFilterChanges(r) \/ GetFilterLogs(r) \/ UninstallFilter(r)

FilterSpec == FilterInit /\ [][FilterNext]_filterVars

(* The relay ends every request (a query ends or times out), and the client *)
(* keeps asking for changes.  Redis fails MaxFaults times at most.          *)
Fairness ==
    /\ \A r \in Requests : []<>(requests[r].kind = "none")
    /\ \A id \in FilterIds :
         SF_filterVars(\E r \in Requests : Ask(r, "getFilterChanges", id))

FairSpec == FilterSpec /\ Fairness

-----------------------------------------------------------------------------
HasLogs(n) == \E i \in DOMAIN chain[n + 1] : DOMAIN chain[n + 1][i].logs # {}

(* The blocks a filter is about: after its creation, or with logs in range. *)
(* One from pending, safe or finalized begins when it is first asked.       *)
Wanted(f, n) ==
    IF f.type = "newBlock" THEN n > f.from.n
    ELSE /\ f.from.tag \in {"number", "earliest"} /\ n >= f.from.n
         /\ f.to.tag \in {"number", "earliest"} => n <= f.to.n
         /\ HasLogs(n)

Passed(f, n) == IF f.type = "newBlock" THEN n <= f.lastQueried ELSE n < f.lastQueried

(* A wanted block is behind the cursor of its filter only when it was in an *)
(* answer, or when it was imported while getFilterChanges was in flight     *)
(* (the latest block is read after the logs), or toBlock was still to come. *)
LostHasCause ==
    \A id \in DOMAIN filters : \A n \in 0 .. Len(chain) - 1 :
        Wanted(filters[id], n) /\ Passed(filters[id], n)
            => n \in answered[id] \cup excused[id]

(* A block is in two answers only after two requests of the filter          *)
(* overlapped or the filter could not be written back, and a filter that is *)
(* gone is in the cache only when a request was in flight as it went, which *)
(* wrote it back, or when it could not be deleted.                          *)
RepeatsHaveCause ==
    /\ repeated \subseteq disturbed
    /\ removed \cap DOMAIN filters \subseteq retained

(* The range from the cursor to the latest block is refused, and always     *)
(* will be.                                                                 *)
TooFarBehind(f) ==
    /\ f.type = "log"
    /\ Len(chain) - 1 - Cursor(f).n > BlockRangeLimit

(* When the client keeps asking, a wanted block is in an answer at last,    *)
(* unless it is excused or the filter is gone or has fallen too far behind. *)
EveryChangeIsAnswered ==
    \A id \in FilterIds, n \in 0 .. MaxBlocks - 1 :
        (Cached(id) /\ n < Len(chain) /\ Wanted(filters[id], n))
            ~> \/ n \in answered[id] \cup excused[id]
               \/ ~Cached(id)
               \/ TooFarBehind(filters[id])
=============================================================================
