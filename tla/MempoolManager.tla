--------------------------- MODULE MempoolManager ---------------------------
(***************************************************************************)
(* The mempool of the bundler: voltaire_bundler/bundler/mempool_manager.py *)
(*                                                                         *)
(* The manager runs on a cooperative asyncio loop.  Several               *)
(* add_user_operation calls (one per JSON-RPC request) and the bundling   *)
(* task get_user_operations_to_bundle interleave at every await; the      *)
(* debug reset clear_user_operations and the chain (code of accounts,     *)
(* factories and paymasters) change state in between.  Each await of the  *)
(* code is a step boundary of the model; the synchronous code between two *)
(* awaits is one action.                                                   *)
(*                                                                         *)
(* Collaborators whose code is not in this repository are modelled from   *)
(* the spec: the ReputationManager (status from ops_seen, section 4.4),    *)
(* Sender.add_user_operation (nonce monotonicity, section 4.5) and         *)
(* ValidationManager.validate_user_operation (simulation and code-hash     *)
(* pinning, section 4.2).                                                   *)
(***************************************************************************)
EXTENDS Integers, Sequences, FiniteSets, Functions

CONSTANTS
    Senders,            \* account addresses
    Factories,          \* factory addresses (first 20 bytes of initCode)
    Paymasters,         \* paymaster addresses (first 20 bytes of paymasterAndData)
    NoEntity,           \* Python None for an absent factory or paymaster
    Nonces,             \* nonces a client may submit
    Handlers,           \* concurrent add_user_operation calls
    MaxAdds,            \* bound on the number of add requests
    MaxObjs,            \* bound on the number of Sender objects created
    MaxCode,            \* bound on the code version of an address
    MaxClears,          \* bound on the number of clear_user_operations calls
    ThrottleThreshold,  \* ReputationManager: ops_seen above it => THROTTLED
    BanThreshold        \* ReputationManager: ops_seen above it => BANNED

Entities == Senders \cup Factories \cup Paymasters

ASSUME ConstantsAssumption ==
    /\ IsFiniteSet(Entities)
    /\ NoEntity \notin Entities
    /\ Nonces \subseteq Nat
    /\ MaxAdds \in Nat /\ MaxObjs \in Nat /\ MaxCode \in Nat /\ MaxClears \in Nat
    /\ ThrottleThreshold \in Nat /\ BanThreshold \in Nat

ObjIds == 1..MaxObjs     \* Sender objects, numbered in creation order
OpIds  == 1..MaxAdds     \* one per add request

\* The user operations a client can submit: sender, optional factory and
\* paymaster, nonce.  Gas fields, calldata and signature are abstracted away.
OpSpace == [sender: Senders, factory: Factories \cup {NoEntity},
            paymaster: Paymasters \cup {NoEntity}, nonce: Nonces]

\* An admitted operation additionally carries its request id and the code
\* hash pinned at validation (the code version of every associated address).
CodeHashes == [Entities -> 0..MaxCode]
Op == [id: OpIds, sender: Senders, factory: Factories \cup {NoEntity},
       paymaster: Paymasters \cup {NoEntity}, nonce: Nonces, codeHash: CodeHashes]

VARIABLES
    senders,       \* MempoolManager.senders: address -> Sender object (0: no key)
    queue,         \* Sender.user_operations of each Sender object
    nextObj,       \* number of Sender objects created so far
    entityCount,   \* MempoolManager.entity_no_of_ops_in_mempool (absent = 0)
    opsSeen,       \* ReputationManager ops_seen per entity
    code,          \* version of the on-chain code at each address
    nextId,        \* number of add requests received
    clears,        \* number of clear_user_operations calls
    hpc,           \* where each add_user_operation call is suspended
    hop,           \* the operation each call is adding
    hobj,          \* the Sender object new_sender the call captured
    bpc,           \* where get_user_operations_to_bundle is suspended
    bTodo,         \* list(self.senders) still to visit: address -> object id at snapshot
    bObj,          \* the Sender object of the current iteration
    bOp,           \* the popped operation whose code hash is being fetched
    bundle,        \* the bundle list being built
    \* history, for the properties only
    appended,      \* operations put into some Sender queue
    bundled,       \* operations returned in a bundle
    dropped,       \* operations discarded for a code-hash mismatch
    cleared        \* operations discarded by clear_user_operations

vars == <<senders, queue, nextObj, entityCount, opsSeen, code, nextId, clears, hpc, hop,
          hobj, bpc, bTodo, bObj, bOp, bundle, appended, bundled, dropped, cleared>>

NoOp == [id |-> 0]

-----------------------------------------------------------------------------
(* Helpers                                                                 *)

\* The factory and paymaster an operation names, when present.
Contracts(o) == {o.factory, o.paymaster} \ {NoEntity}

\* Sender, factory and paymaster of an operation (update_all_seen_status).
Present(o) == {o.sender} \cup Contracts(o)

\* The code hash of the associated addresses (get_addresses_code_hash).
CodeHashOf(o, c) == [a \in Entities |-> IF a \in Present(o) THEN c[a] ELSE 0]

Last(s) == s[Len(s)]

\* ReputationManager.get_status; ops_included is never incremented by the
\* code of this repository, so the status follows ops_seen alone.
Status(e) == IF opsSeen[e] > BanThreshold THEN "BANNED"
             ELSE IF opsSeen[e] > ThrottleThreshold THEN "THROTTLED"
             ELSE "OK"

\* Keys of the senders dict.
Keys == {a \in Senders : senders[a] # 0}

\* The operations in the mempool: get_all_user_operations (Range of a
\* sequence is the set of its elements, from Functions).
Mempool == UNION {Range(queue[senders[a]]) : a \in Keys}

-----------------------------------------------------------------------------
Init ==
    /\ senders = [a \in Senders |-> 0]
    /\ queue = [o \in ObjIds |-> <<>>]
    /\ nextObj = 0
    /\ entityCount = [e \in Entities |-> 0]
    /\ opsSeen = [e \in Entities |-> 0]
    /\ code = [e \in Entities |-> 0]
    /\ nextId = 0
    /\ clears = 0
    /\ hpc = [h \in Handlers |-> "idle"]
    /\ hop = [h \in Handlers |-> NoOp]
    /\ hobj = [h \in Handlers |-> 0]
    /\ bpc = "idle"
    /\ bTodo = [a \in Senders |-> 0]
    /\ bObj = 0
    /\ bOp = NoOp
    /\ bundle = <<>>
    /\ appended = {} /\ bundled = {} /\ dropped = {} /\ cleared = {}

-----------------------------------------------------------------------------
(* add_user_operation (lines 52-102), one action per stretch between awaits *)

\* _verify_entities_reputation (lines 147-216): the count it compares is the
\* one stored in entity_no_of_ops_in_mempool for the entity (line 189), which
\* only factories and paymasters ever increment.
ReputationAllows(o) ==
    \A e \in Present(o) :
        /\ Status(e) # "BANNED"
        /\ ~(Status(e) = "THROTTLED" /\ entityCount[e] > 0)

\* Lines 53-59: the reputation check passes and the call suspends in
\* validate_user_operation.
Receive(h, o) ==
    /\ hpc[h] = "idle"
    /\ nextId < MaxAdds
    /\ ReputationAllows(o)
    /\ nextId' = nextId + 1
    /\ hop' = [hop EXCEPT ![h] = [id |-> nextId + 1, sender |-> o.sender,
                                  factory |-> o.factory, paymaster |-> o.paymaster,
                                  nonce |-> o.nonce, codeHash |-> [e \in Entities |-> 0]]]
    /\ hpc' = [hpc EXCEPT ![h] = "validating"]
    /\ UNCHANGED <<clears, senders, queue, nextObj, entityCount, opsSeen, code, hobj,
                   bpc, bTodo, bObj, bOp, bundle, appended, bundled, dropped, cleared>>

\* Lines 53-57: a Reputation ValidationException is raised.
ReceiveRejected(h, o) ==
    /\ hpc[h] = "idle"
    /\ nextId < MaxAdds
    /\ ~ReputationAllows(o)
    /\ nextId' = nextId + 1
    /\ UNCHANGED <<clears, senders, queue, nextObj, entityCount, opsSeen, code, hpc, hop,
                   hobj, bpc, bTodo, bObj, bOp, bundle, appended, bundled, dropped, cleared>>

\* Line 59: simulation rejects the operation (or the RPC fails); the
\* exception leaves the call.
ValidateFail(h) ==
    /\ hpc[h] = "validating"
    /\ hpc' = [hpc EXCEPT ![h] = "idle"]
    /\ hop' = [hop EXCEPT ![h] = NoOp]
    /\ hobj' = [hobj EXCEPT ![h] = 0]
    /\ UNCHANGED <<clears, senders, queue, nextObj, entityCount, opsSeen, code, nextId,
                   bpc, bTodo, bObj, bOp, bundle, appended, bundled, dropped, cleared>>

\* Line 59 returns (the code hash is pinned from the code seen by the
\* simulation); lines 63-69 create the Sender object if the key is absent and
\* capture it; line 71 suspends in asyncio.gather.
ValidateOk(h) ==
    LET a == hop[h].sender IN
    /\ hpc[h] = "validating"
    /\ senders[a] = 0 => nextObj < MaxObjs
    /\ hop' = [hop EXCEPT ![h].codeHash = CodeHashOf(hop[h], code)]
    /\ IF senders[a] = 0
         THEN /\ nextObj' = nextObj + 1
              /\ senders' = [senders EXCEPT ![a] = nextObj + 1]
              /\ hobj' = [hobj EXCEPT ![h] = nextObj + 1]
         ELSE /\ hobj' = [hobj EXCEPT ![h] = senders[a]]
              /\ UNCHANGED <<nextObj, senders>>
    /\ hpc' = [hpc EXCEPT ![h] = "appending"]
    /\ UNCHANGED <<clears, queue, entityCount, opsSeen, code, nextId, bpc, bTodo, bObj,
                   bOp, bundle, appended, bundled, dropped, cleared>>

\* Sender.add_user_operation (line 72), run as a task of the gather: it
\* accepts a nonce above the last one queued and appends to the captured
\* object, whether or not that object is still in the senders dict.
NonceAccepted(q, n) == IF Len(q) = 0 THEN TRUE ELSE Last(q).nonce < n

AppendOk(h) ==
    LET q == queue[hobj[h]] IN
    /\ hpc[h] = "appending"
    /\ NonceAccepted(q, hop[h].nonce)
    /\ queue' = [queue EXCEPT ![hobj[h]] = Append(q, hop[h])]
    /\ appended' = appended \cup {hop[h]}
    /\ hpc' = [hpc EXCEPT ![h] = "hashing"]
    /\ UNCHANGED <<clears, senders, nextObj, entityCount, opsSeen, code, nextId, hop, hobj,
                   bpc, bTodo, bObj, bOp, bundle, bundled, dropped, cleared>>

\* The nonce is refused: InvalidFields propagates out of the gather.
AppendRejected(h) ==
    /\ hpc[h] = "appending"
    /\ ~NonceAccepted(queue[hobj[h]], hop[h].nonce)
    /\ hpc' = [hpc EXCEPT ![h] = "idle"]
    /\ hop' = [hop EXCEPT ![h] = NoOp]
    /\ hobj' = [hobj EXCEPT ![h] = 0]
    /\ UNCHANGED <<clears, senders, queue, nextObj, entityCount, opsSeen, code, nextId,
                   bpc, bTodo, bObj, bOp, bundle, appended, bundled, dropped, cleared>>

\* Mutant: the entity counter is decremented instead of incremented.
FinishDecrement(h) ==
    LET o == hop[h] IN
    /\ hpc[h] = "hashing"
    /\ opsSeen' = [e \in Entities |-> IF e \in Present(o) THEN opsSeen[e] + 1
                                                         ELSE opsSeen[e]]
    /\ entityCount' = [e \in Entities |-> IF e \in Contracts(o) THEN entityCount[e] - 1
                                                               ELSE entityCount[e]]
    /\ hpc' = [hpc EXCEPT ![h] = "idle"]
    /\ hop' = [hop EXCEPT ![h] = NoOp]
    /\ hobj' = [hobj EXCEPT ![h] = 0]
    /\ UNCHANGED <<clears, senders, queue, nextObj, code, nextId, bpc, bTodo,
                   bObj, bOp, bundle, appended, bundled, dropped, cleared>>

\* _update_entity_no_of_ops_in_mempool for each entity of S (absent = 0).
UpdateEntityNoOfOps(ec, S) == [e \in Entities |-> IF e \in S THEN ec[e] + 1 ELSE ec[e]]

\* The hashing thread returns (line 84); lines 86-102 update ops_seen of
\* every entity and the mempool count of the factory and paymaster.
Finish(h) ==
    LET o == hop[h] IN
    /\ hpc[h] = "hashing"
    /\ opsSeen' = [e \in Entities |-> IF e \in Present(o) THEN opsSeen[e] + 1
                                                         ELSE opsSeen[e]]
    /\ entityCount' = UpdateEntityNoOfOps(entityCount, Contracts(o))
    /\ hpc' = [hpc EXCEPT ![h] = "idle"]
    /\ hop' = [hop EXCEPT ![h] = NoOp]
    /\ hobj' = [hobj EXCEPT ![h] = 0]
    /\ UNCHANGED <<clears, senders, queue, nextObj, code, nextId, bpc, bTodo,
                   bObj, bOp, bundle, appended, bundled, dropped, cleared>>

-----------------------------------------------------------------------------
(* get_user_operations_to_bundle (lines 104-126)                          *)

\* Lines 105-107: the bundle is empty and list(self.senders) is taken.
BundleStart ==
    /\ bpc = "idle"
    /\ bTodo' = senders
    /\ bundle' = <<>>
    /\ bpc' = "loop"
    /\ UNCHANGED <<clears, senders, queue, nextObj, entityCount, opsSeen, code, nextId, hpc,
                   hop, hobj, bObj, bOp, appended, bundled, dropped, cleared>>

\* The next address of the snapshot: dict order is insertion order, and a
\* key is inserted when its Sender object is created, so the next address is
\* the one whose object at snapshot time is the oldest still to visit.
IsNextAddr(a) ==
    /\ bTodo[a] # 0
    /\ \A b \in Senders : bTodo[b] # 0 => bTodo[a] <= bTodo[b]

\* Mutant: the head is read (user_operations[0]) instead of popped.
BundleVisitPeek ==
    /\ bpc = "loop"
    /\ \E a \in Senders :
        LET o == senders[a] IN
        /\ IsNextAddr(a)
        /\ o # 0
        /\ bTodo' = [bTodo EXCEPT ![a] = 0]
        /\ IF Len(queue[o]) > 0
             THEN /\ bOp' = Head(queue[o])
                  /\ UNCHANGED queue
                  /\ bObj' = o
                  /\ bpc' = "check"
             ELSE UNCHANGED <<bOp, queue, bObj, bpc>>
    /\ UNCHANGED <<clears, senders, nextObj, entityCount, opsSeen, code, nextId, hpc, hop,
                   hobj, bundle, appended, bundled, dropped, cleared>>

\* Mutant: a queue holding a single operation is skipped.
BundleVisitSkipSingle ==
    /\ bpc = "loop"
    /\ \E a \in Senders :
        LET o == senders[a] IN
        /\ IsNextAddr(a)
        /\ o # 0
        /\ bTodo' = [bTodo EXCEPT ![a] = 0]
        /\ IF Len(queue[o]) > 1
             THEN /\ bOp' = Head(queue[o])
                  /\ queue' = [queue EXCEPT ![o] = Tail(queue[o])]
                  /\ bObj' = o
                  /\ bpc' = "check"
             ELSE UNCHANGED <<bOp, queue, bObj, bpc>>
    /\ UNCHANGED <<clears, senders, nextObj, entityCount, opsSeen, code, nextId, hpc, hop,
                   hobj, bundle, appended, bundled, dropped, cleared>>

\* Lines 108-111: the Sender object now under the key (KeyError if the key
\* was removed since the snapshot); an empty queue is skipped, otherwise its
\* head is popped and the call suspends in get_addresses_code_hash.
BundleVisit ==
    /\ bpc = "loop"
    /\ \E a \in Senders :
        LET o == senders[a] IN
        /\ IsNextAddr(a)
        /\ o # 0
        /\ bTodo' = [bTodo EXCEPT ![a] = 0]
        /\ IF Len(queue[o]) > 0
             THEN /\ bOp' = Head(queue[o])
                  /\ queue' = [queue EXCEPT ![o] = Tail(queue[o])]
                  /\ bObj' = o
                  /\ bpc' = "check"
             ELSE UNCHANGED <<bOp, queue, bObj, bpc>>
    /\ UNCHANGED <<clears, senders, nextObj, entityCount, opsSeen, code, nextId, hpc, hop,
                   hobj, bundle, appended, bundled, dropped, cleared>>

\* The call ends with an exception: the bundle built so far, and the
\* operations popped into it, are not returned.
Abort ==
    /\ bpc' = "idle"
    /\ bundle' = <<>>
    /\ bOp' = NoOp
    /\ bObj' = 0
    /\ bTodo' = [a \in Senders |-> 0]

\* Line 108: KeyError, the key was deleted since the snapshot.
BundleVisitKeyError ==
    /\ bpc = "loop"
    /\ \E a \in Senders : IsNextAddr(a) /\ senders[a] = 0
    /\ Abort
    /\ UNCHANGED <<clears, senders, queue, nextObj, entityCount, opsSeen, code, nextId, hpc,
                   hop, hobj, appended, bundled, dropped, cleared>>

\* Line 113: the eth_getCode request fails and the exception propagates.
BundleRpcError ==
    /\ bpc = "check"
    /\ Abort
    /\ UNCHANGED <<clears, senders, queue, nextObj, entityCount, opsSeen, code, nextId, hpc,
                   hop, hobj, appended, bundled, dropped, cleared>>

\* Lines 117-118: the code changed since validation; the popped operation is
\* discarded and the loop continues (without the emptiness check of 121).
BundleDrop ==
    /\ bpc = "check"
    /\ CodeHashOf(bOp, code) # bOp.codeHash
    /\ dropped' = dropped \cup {bOp}
    /\ bpc' = "loop"
    /\ bOp' = NoOp
    /\ bObj' = 0
    /\ UNCHANGED <<clears, senders, queue, nextObj, entityCount, opsSeen, code, nextId, hpc,
                   hop, hobj, bTodo, bundle, appended, bundled, cleared>>

\* Lines 120-122: the operation joins the bundle; if its Sender object is now
\* empty, the key of its address is deleted, whichever object it maps to.
BundleAccept ==
    LET a == bOp.sender IN
    /\ bpc = "check"
    /\ CodeHashOf(bOp, code) = bOp.codeHash
    /\ queue[bObj] = <<>> => senders[a] # 0
    /\ bundle' = Append(bundle, bOp)
    /\ senders' = IF queue[bObj] = <<>> THEN [senders EXCEPT ![a] = 0] ELSE senders
    /\ bpc' = "loop"
    /\ bOp' = NoOp
    /\ bObj' = 0
    /\ UNCHANGED <<clears, queue, nextObj, entityCount, opsSeen, code, nextId, hpc, hop, hobj,
                   bTodo, appended, bundled, dropped, cleared>>

\* Line 122: KeyError, the key was deleted (by clear_user_operations) while
\* the call was suspended.
BundleAcceptKeyError ==
    /\ bpc = "check"
    /\ CodeHashOf(bOp, code) = bOp.codeHash
    /\ queue[bObj] = <<>>
    /\ senders[bOp.sender] = 0
    /\ Abort
    /\ UNCHANGED <<clears, senders, queue, nextObj, entityCount, opsSeen, code, nextId, hpc,
                   hop, hobj, appended, bundled, dropped, cleared>>

\* Lines 124-126: the loop is over and the bundle is returned.
BundleReturn ==
    /\ bpc = "loop"
    /\ \A b \in Senders : bTodo[b] = 0
    /\ bundled' = bundled \cup Range(bundle)
    /\ bundle' = <<>>
    /\ bpc' = "idle"
    /\ UNCHANGED <<clears, senders, queue, nextObj, entityCount, opsSeen, code, nextId, hpc,
                   hop, hobj, bTodo, bObj, bOp, appended, dropped, cleared>>

-----------------------------------------------------------------------------
(* clear_user_operations (lines 49-50) and the environment                 *)

\* Lines 49-50: every key of the senders dict is removed; the entity counts
\* are left as they are.
ClearUserOperations ==
    /\ clears < MaxClears
    /\ clears' = clears + 1
    /\ senders' = [a \in Senders |-> 0]
    /\ cleared' = cleared \cup Mempool
    /\ UNCHANGED <<queue, nextObj, entityCount, opsSeen, code, nextId, hpc, hop,
                   hobj, bpc, bTodo, bObj, bOp, bundle, appended, bundled, dropped>>

\* The addresses whose code may change on chain.
Upgradeable == Entities

\* The code at an address changes on chain (an upgrade or a redeployment).
ChangeCode(e) ==
    /\ code[e] < MaxCode
    /\ code' = [code EXCEPT ![e] = code[e] + 1]
    /\ UNCHANGED <<clears, senders, queue, nextObj, entityCount, opsSeen, nextId, hpc, hop,
                   hobj, bpc, bTodo, bObj, bOp, bundle, appended, bundled, dropped, cleared>>

-----------------------------------------------------------------------------
HandlerStep(h) ==
    \/ ValidateFail(h) \/ ValidateOk(h)
    \/ AppendOk(h) \/ AppendRejected(h)
    \/ Finish(h)

BundleStep ==
    \/ BundleStart \/ BundleVisit \/ BundleVisitKeyError
    \/ BundleRpcError \/ BundleDrop \/ BundleAccept \/ BundleAcceptKeyError
    \/ BundleReturn

Next ==
    \/ \E h \in Handlers, o \in OpSpace : Receive(h, o) \/ ReceiveRejected(h, o)
    \/ \E h \in Handlers : HandlerStep(h)
    \/ BundleStep
    \/ ClearUserOperations
    \/ \E e \in Upgradeable : ChangeCode(e)

\* Every await returns (RPCs time out) and the bundling task keeps being
\* scheduled; new requests, resets and code changes need not happen.
Fairness ==
    /\ \A h \in Handlers : WF_vars(HandlerStep(h))
    /\ WF_vars(BundleStep)

Spec == Init /\ [][Next]_vars /\ Fairness

-----------------------------------------------------------------------------
(* Properties                                                              *)

TypeOK ==
    /\ senders \in [Senders -> 0..MaxObjs]
    /\ queue \in [ObjIds -> Seq(Op)]
    /\ nextObj \in 0..MaxObjs
    /\ entityCount \in [Entities -> Nat]
    /\ opsSeen \in [Entities -> Nat]
    /\ code \in [Entities -> 0..MaxCode]
    /\ nextId \in 0..MaxAdds
    /\ clears \in 0..MaxClears
    /\ hpc \in [Handlers -> {"idle", "validating", "appending", "hashing"}]
    /\ hop \in [Handlers -> Op \cup {NoOp}]
    /\ hobj \in [Handlers -> 0..MaxObjs]
    /\ bpc \in {"idle", "loop", "check"}
    /\ bTodo \in [Senders -> 0..MaxObjs]
    /\ bObj \in 0..MaxObjs
    /\ bOp \in Op \cup {NoOp}
    /\ bundle \in Seq(Op)
    /\ appended \subseteq Op /\ bundled \subseteq Op
    /\ dropped \subseteq Op /\ cleared \subseteq Op

\* The operation popped by the bundling task while it waits for the code hash.
InFlight == IF bpc = "check" THEN {bOp} ELSE {}

\* Operations in the queue of any Sender object, reachable or not.
InQueues == UNION {Range(queue[o]) : o \in ObjIds}

Ids(S) == {x.id : x \in S}

\* An admitted operation is in one place at a time: one slot of one Sender
\* queue, the bundle being built, the operation being checked, or the
\* returned bundles; so get_user_operations_to_bundle never returns an
\* operation twice nor keeps one it has bundled.
NoOpDuplicated ==
    /\ \A o1, o2 \in ObjIds : \A i \in 1..Len(queue[o1]), j \in 1..Len(queue[o2]) :
          queue[o1][i].id = queue[o2][j].id => o1 = o2 /\ i = j
    /\ \A i, j \in 1..Len(bundle) : bundle[i].id = bundle[j].id => i = j
    /\ Ids(Range(bundle)) \cap Ids(InQueues \cup InFlight) = {}
    /\ Ids(InFlight) \cap Ids(InQueues) = {}
    /\ Ids(bundled) \cap Ids(InQueues \cup InFlight \cup Range(bundle)) = {}

\* Every operation that is in the mempool eventually leaves it: the bundling
\* task, visiting every sender once per call and popping its head, cannot
\* starve a queued operation.
QueuedOpEventuallyLeaves ==
    \A i \in OpIds : (i \in Ids(Mempool)) ~> (i \notin Ids(Mempool))

\* Section 4.5 step 2 of the spec: an add call is refused at its reputation
\* check when one of its entities is THROTTLED and already has an operation
\* in the mempool.
ThrottledAdmissionRefused ==
    [][\A h \in Handlers :
         (hpc[h] = "idle" /\ hpc'[h] = "validating") =>
            \A e \in Present(hop'[h]) :
                Status(e) = "THROTTLED" => \A x \in Mempool : e \notin Present(x)
      ]_vars

\* Invariant M2 / P3 of the spec: when no call is between steps,
\* entity_no_of_ops_in_mempool[e] is the number of mempool operations whose
\* factory or paymaster is e.
EntityCountMatchesMempool ==
    (bpc = "idle" /\ \A h \in Handlers : hpc[h] = "idle") =>
        \A e \in Factories \cup Paymasters :
            entityCount[e] = Cardinality({x \in Mempool : e \in Contracts(x)})

\* Section 5 of the spec: get_user_operations_to_bundle is atomic per
\* operation, and nothing else removes an admitted operation: each one is in
\* the mempool, being bundled, returned in a bundle, dropped for a code
\* change, or removed by clear_user_operations.
NoOpLost ==
    appended \subseteq Mempool \cup Range(bundle) \cup InFlight \cup bundled
                       \cup dropped \cup cleared

=============================================================================
