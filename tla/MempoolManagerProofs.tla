------------------------- MODULE MempoolManagerProofs -------------------------
(***************************************************************************)
(* Proofs about MempoolManager for every value of its constants.           *)
(*                                                                         *)
(* TypeOK is not inductive by itself: an add call that is appending must   *)
(* hold a real Sender object and a real operation, and so must the         *)
(* bundling task while it checks a code hash.  TypeInv adds exactly these  *)
(* facts about the local state of suspended calls.                         *)
(***************************************************************************)
EXTENDS MempoolManager, SequenceTheorems, TLAPS

\* The local state of the suspended calls.
LocalsOK ==
    /\ \A h \in Handlers : hpc[h] # "idle" => hop[h] \in Op
    /\ \A h \in Handlers : hpc[h] \in {"appending", "hashing"} => hobj[h] \in ObjIds
    /\ bpc = "check" => bObj \in ObjIds /\ bOp \in Op

TypeInv == TypeOK /\ LocalsOK

USE ConstantsAssumption

-----------------------------------------------------------------------------
(* Lemmas on the helpers                                                    *)

LEMMA CodeHashType ==
    ASSUME NEW o, NEW c \in [Entities -> 0..MaxCode]
    PROVE  CodeHashOf(o, c) \in CodeHashes
BY DEF CodeHashOf, CodeHashes

LEMMA MempoolType ==
    ASSUME TypeOK
    PROVE  Mempool \subseteq Op
<1>1. \A a \in Keys : queue[senders[a]] \in Seq(Op)
  BY DEF TypeOK, Keys, ObjIds
<1>2. \A a \in Keys : Range(queue[senders[a]]) \subseteq Op
  BY <1>1, RangeOfSeq
<1>3. ASSUME NEW x \in Mempool PROVE x \in Op
  <2>1. PICK a \in Keys : x \in Range(queue[senders[a]])
    BY DEF Mempool
  <2>. QED BY <1>2, <2>1
<1>. QED BY <1>3

-----------------------------------------------------------------------------
(* Type correctness                                                         *)

LEMMA InitTypeInv == Init => TypeInv
BY DEF Init, TypeInv, TypeOK, LocalsOK, ObjIds

\* The add steps of one handler keep the types.
LEMMA HandlerStepTypeInv ==
    ASSUME TypeInv, NEW h \in Handlers, HandlerStep(h)
    PROVE  TypeInv'
<1>. USE DEF TypeInv, TypeOK, LocalsOK
<1>1. CASE ValidateFail(h)
  BY <1>1 DEF ValidateFail
<1>2. CASE ValidateOk(h)
  <2>. DEFINE a == hop[h].sender
  <2>1. hop[h] \in Op
    BY <1>2 DEF ValidateOk
  <2>2. CodeHashOf(hop[h], code) \in CodeHashes
    BY CodeHashType
  <2>3. hop' \in [Handlers -> Op \cup {NoOp}] /\ hop'[h] \in Op
    BY <1>2, <2>1, <2>2 DEF ValidateOk, Op
  <2>4. a \in Senders
    BY <2>1 DEF Op
  <2>8. \A g \in Handlers \ {h} : hop'[g] = hop[g]
    BY <1>2 DEF ValidateOk
  <2>5. hpc' = [hpc EXCEPT ![h] = "appending"]
    BY <1>2 DEF ValidateOk
  <2>6. CASE senders[a] = 0
    <3>1. nextObj + 1 \in ObjIds
      BY <1>2, <2>6 DEF ValidateOk, ObjIds
    <3>2. /\ nextObj' = nextObj + 1
          /\ senders' = [senders EXCEPT ![a] = nextObj + 1]
          /\ hobj' = [hobj EXCEPT ![h] = nextObj + 1]
      BY <1>2, <2>6 DEF ValidateOk
    <3>3. UNCHANGED <<queue, entityCount, opsSeen, code, nextId, clears, bpc, bTodo,
                      bObj, bOp, bundle, appended, bundled, dropped, cleared>>
      BY <1>2 DEF ValidateOk
    <3>6. /\ senders' \in [Senders -> 0..MaxObjs]
          /\ nextObj' \in 0..MaxObjs
          /\ hobj' \in [Handlers -> 0..MaxObjs]
      BY <2>4, <3>1, <3>2 DEF ObjIds
    <3>7. hpc' \in [Handlers -> {"idle", "validating", "appending", "hashing"}]
      BY <2>5
    <3>4. TypeOK'
      BY <2>3, <3>3, <3>6, <3>7
    <3>5. LocalsOK'
      BY <2>3, <2>5, <2>8, <3>1, <3>2, <3>3
    <3>. QED BY <3>4, <3>5
  <2>7. CASE senders[a] # 0
    <3>1. senders[a] \in ObjIds
      BY <2>4, <2>7 DEF ObjIds
    <3>2. hobj' = [hobj EXCEPT ![h] = senders[a]] /\ UNCHANGED <<nextObj, senders>>
      BY <1>2, <2>7 DEF ValidateOk
    <3>3. UNCHANGED <<queue, entityCount, opsSeen, code, nextId, clears, bpc, bTodo,
                      bObj, bOp, bundle, appended, bundled, dropped, cleared>>
      BY <1>2 DEF ValidateOk
    <3>. QED BY <2>3, <2>5, <2>8, <3>1, <3>2, <3>3 DEF ObjIds
  <2>. QED BY <2>6, <2>7
<1>3. CASE AppendOk(h)
  <2>1. hobj[h] \in ObjIds /\ hop[h] \in Op
    BY <1>3 DEF AppendOk
  <2>2. Append(queue[hobj[h]], hop[h]) \in Seq(Op)
    BY <2>1, AppendProperties
  <2>. QED BY <1>3, <2>1, <2>2 DEF AppendOk
<1>4. CASE AppendRejected(h)
  BY <1>4 DEF AppendRejected
<1>5. CASE Finish(h)
  BY <1>5 DEF Finish, UpdateEntityNoOfOps
<1>. QED BY <1>1, <1>2, <1>3, <1>4, <1>5 DEF HandlerStep

\* The steps of the bundling task keep the types.
LEMMA BundleStepTypeInv ==
    ASSUME TypeInv, BundleStep
    PROVE  TypeInv'
<1>. USE DEF TypeInv, TypeOK, LocalsOK
<1>1. CASE BundleStart
  BY <1>1 DEF BundleStart
<1>2. CASE BundleVisit
  <2>1. PICK a \in Senders :
          /\ IsNextAddr(a)
          /\ senders[a] # 0
          /\ bTodo' = [bTodo EXCEPT ![a] = 0]
          /\ IF Len(queue[senders[a]]) > 0
               THEN /\ bOp' = Head(queue[senders[a]])
                    /\ queue' = [queue EXCEPT ![senders[a]] = Tail(queue[senders[a]])]
                    /\ bObj' = senders[a]
                    /\ bpc' = "check"
               ELSE UNCHANGED <<bOp, queue, bObj, bpc>>
    BY <1>2 DEF BundleVisit
  <2>2. senders[a] \in ObjIds
    BY <2>1 DEF ObjIds
  <2>3. CASE Len(queue[senders[a]]) > 0
    <3>1. queue[senders[a]] \in Seq(Op) /\ queue[senders[a]] # <<>>
      BY <2>2, <2>3
    <3>2. Head(queue[senders[a]]) \in Op /\ Tail(queue[senders[a]]) \in Seq(Op)
      BY <3>1, HeadTailProperties
    <3>3. /\ bOp' = Head(queue[senders[a]])
          /\ queue' = [queue EXCEPT ![senders[a]] = Tail(queue[senders[a]])]
          /\ bObj' = senders[a]
          /\ bpc' = "check"
      BY <2>1, <2>3
    <3>4. UNCHANGED <<clears, senders, nextObj, entityCount, opsSeen, code, nextId, hpc,
                      hop, hobj, bundle, appended, bundled, dropped, cleared>>
      BY <1>2 DEF BundleVisit
    <3>5. bTodo' \in [Senders -> 0..MaxObjs]
      BY <2>1
    <3>. QED BY <2>2, <3>2, <3>3, <3>4, <3>5 DEF ObjIds
  <2>4. CASE ~(Len(queue[senders[a]]) > 0)
    <3>1. UNCHANGED <<bOp, queue, bObj, bpc>>
      BY <2>1, <2>4
    <3>2. UNCHANGED <<clears, senders, nextObj, entityCount, opsSeen, code, nextId, hpc,
                      hop, hobj, bundle, appended, bundled, dropped, cleared>>
      BY <1>2 DEF BundleVisit
    <3>3. bTodo' \in [Senders -> 0..MaxObjs]
      BY <2>1
    <3>. QED BY <3>1, <3>2, <3>3
  <2>. QED BY <2>3, <2>4
<1>3. CASE BundleVisitKeyError
  BY <1>3 DEF BundleVisitKeyError, Abort
<1>4. CASE BundleRpcError
  BY <1>4 DEF BundleRpcError, Abort
<1>5. CASE BundleDrop
  BY <1>5 DEF BundleDrop
<1>6. CASE BundleAccept
  <2>1. bOp \in Op
    BY <1>6 DEF BundleAccept
  <2>2. Append(bundle, bOp) \in Seq(Op)
    BY <2>1, AppendProperties
  <2>3. bOp.sender \in Senders
    BY <2>1 DEF Op
  <2>. QED BY <1>6, <2>2, <2>3 DEF BundleAccept
<1>7. CASE BundleAcceptKeyError
  BY <1>7 DEF BundleAcceptKeyError, Abort
<1>8. CASE BundleReturn
  <2>1. Range(bundle) \subseteq Op
    BY RangeOfSeq
  <2>2. /\ bundled' = bundled \cup Range(bundle)
        /\ bundle' = <<>>
        /\ bpc' = "idle"
        /\ UNCHANGED <<clears, senders, queue, nextObj, entityCount, opsSeen, code, nextId,
                       hpc, hop, hobj, bTodo, bObj, bOp, appended, dropped, cleared>>
    BY <1>8 DEF BundleReturn
  <2>. QED BY <2>1, <2>2
<1>. QED BY <1>1, <1>2, <1>3, <1>4, <1>5, <1>6, <1>7, <1>8 DEF BundleStep

LEMMA NextTypeInv == TypeInv /\ [Next]_vars => TypeInv'
<1>. SUFFICES ASSUME TypeInv, [Next]_vars PROVE TypeInv'
  OBVIOUS
<1>. USE DEF TypeInv, TypeOK, LocalsOK
<1>1. ASSUME NEW h \in Handlers, NEW o \in OpSpace, Receive(h, o)
      PROVE  TypeInv'
  <2>1. nextId + 1 \in OpIds
    BY <1>1 DEF Receive, OpIds
  <2>2. [e \in Entities |-> 0] \in CodeHashes
    BY DEF CodeHashes
  <2>3. /\ o.sender \in Senders /\ o.factory \in Factories \cup {NoEntity}
        /\ o.paymaster \in Paymasters \cup {NoEntity} /\ o.nonce \in Nonces
    BY DEF OpSpace
  <2>4. [id |-> nextId + 1, sender |-> o.sender, factory |-> o.factory,
         paymaster |-> o.paymaster, nonce |-> o.nonce,
         codeHash |-> [e \in Entities |-> 0]] \in Op
    BY <2>1, <2>2, <2>3, Zenon DEF Op
  <2>5. nextId + 1 \in 0..MaxAdds
    BY <1>1 DEF Receive
  <2>. QED BY <1>1, <2>4, <2>5 DEF Receive
<1>2. ASSUME NEW h \in Handlers, NEW o \in OpSpace, ReceiveRejected(h, o)
      PROVE  TypeInv'
  BY <1>2 DEF ReceiveRejected
<1>3. ASSUME NEW h \in Handlers, HandlerStep(h) PROVE TypeInv'
  BY <1>3, HandlerStepTypeInv
<1>4. CASE BundleStep
  BY <1>4, BundleStepTypeInv
<1>5. CASE ClearUserOperations
  BY <1>5, MempoolType DEF ClearUserOperations
<1>6. ASSUME NEW e \in Upgradeable, ChangeCode(e) PROVE TypeInv'
  BY <1>6 DEF ChangeCode, Upgradeable
<1>7. CASE UNCHANGED vars
  BY <1>7 DEF vars
<1>. QED BY <1>1, <1>2, <1>3, <1>4, <1>5, <1>6, <1>7 DEF Next

\* Type correctness of the mempool manager: whatever the interleaving of add
\* calls, bundling, clear_user_operations and code changes, every variable
\* keeps the type of the Python structure it models.
THEOREM TypeCorrect == Spec => []TypeOK
<1>1. Init => TypeInv
  BY InitTypeInv
<1>2. TypeInv /\ [Next]_vars => TypeInv'
  BY NextTypeInv
<1>3. TypeInv => TypeOK
  BY DEF TypeInv
<1>. QED BY <1>1, <1>2, <1>3, PTL DEF Spec

-----------------------------------------------------------------------------
(* Every admitted operation in one place                                   *)

\* The add calls that hold an operation not yet appended to a queue.
Pending == {h \in Handlers : hpc[h] \in {"validating", "appending"}}

\* Operations held by the mempool structures and by the bundling task.
Placed == InQueues \cup InFlight \cup Range(bundle) \cup bundled

\* The inductive invariant: besides NoOpDuplicated, the operation of an
\* add call still validating or appending has a fresh request id, used by
\* no other call, and every id in use was handed out by a Receive.
IdInv ==
    /\ TypeInv
    /\ NoOpDuplicated
    /\ \A h \in Pending : hop[h].id \notin Ids(Placed)
    /\ \A g, h \in Pending : hop[g].id = hop[h].id => g = h
    /\ Ids(Placed) \cup {hop[h].id : h \in Pending} \subseteq 1..nextId


\* The operations of a family of queues, and the request ids of its slots
\* being pairwise distinct.
InQ(Q) == UNION {Range(Q[o]) : o \in ObjIds}

SlotsUnique(Q) ==
    \A o1, o2 \in ObjIds : \A i \in 1..Len(Q[o1]), j \in 1..Len(Q[o2]) :
        Q[o1][i].id = Q[o2][j].id => o1 = o2 /\ i = j

SeqUnique(s) == \A i, j \in 1..Len(s) : s[i].id = s[j].id => i = j

LEMMA RangeEmpty == Range(<<>>) = {}
BY DEF Range

LEMMA RangeAppend ==
    ASSUME NEW S, NEW s \in Seq(S), NEW x
    PROVE  Range(Append(s, x)) = Range(s) \cup {x}
<1>1. /\ DOMAIN Append(s, x) = 1..(Len(s) + 1)
      /\ \A i \in 1..Len(s) : Append(s, x)[i] = s[i]
      /\ Append(s, x)[Len(s) + 1] = x
  BY AppendProperties
<1>2. DOMAIN s = 1..Len(s) /\ Len(s) \in Nat
  OBVIOUS
<1>. QED BY <1>1, <1>2 DEF Range

\* Sender.add_user_operation: appending an operation whose id is in no
\* queue keeps the ids of the slots distinct and adds just that operation.
LEMMA AppendSlotsUnique ==
    ASSUME NEW Q \in [ObjIds -> Seq(Op)], NEW o0 \in ObjIds, NEW x \in Op,
           SlotsUnique(Q), x.id \notin Ids(InQ(Q))
    PROVE  LET R == [Q EXCEPT ![o0] = Append(Q[o0], x)]
           IN  /\ R \in [ObjIds -> Seq(Op)]
               /\ SlotsUnique(R)
               /\ InQ(R) = InQ(Q) \cup {x}
<1>. DEFINE R == [Q EXCEPT ![o0] = Append(Q[o0], x)]
            n == Len(Q[o0])
<1>1. /\ Append(Q[o0], x) \in Seq(Op)
      /\ Len(Append(Q[o0], x)) = n + 1
      /\ \A i \in 1..n : Append(Q[o0], x)[i] = Q[o0][i]
      /\ Append(Q[o0], x)[n + 1] = x
  BY AppendProperties
<1>2. R \in [ObjIds -> Seq(Op)]
  BY <1>1
<1>3. \A o \in ObjIds \ {o0} : R[o] = Q[o]
  OBVIOUS
<1>4. R[o0] = Append(Q[o0], x)
  OBVIOUS
\* Every old slot keeps its operation.
<1>5. ASSUME NEW o \in ObjIds, NEW i \in 1..Len(Q[o])
      PROVE  i \in 1..Len(R[o]) /\ R[o][i] = Q[o][i]
  BY <1>1, <1>3, <1>4
\* A slot of R is an old slot or the new one.
<1>6. ASSUME NEW o \in ObjIds, NEW i \in 1..Len(R[o])
      PROVE  \/ i \in 1..Len(Q[o])
             \/ o = o0 /\ i = n + 1 /\ R[o][i] = x
  BY <1>1, <1>3, <1>4
<1>7. \A o \in ObjIds : \A i \in 1..Len(Q[o]) : Q[o][i].id \in Ids(InQ(Q))
  BY DEF InQ, Range, Ids
<1>8. SlotsUnique(R)
  <2>. SUFFICES ASSUME NEW o1 \in ObjIds, NEW o2 \in ObjIds,
                       NEW i \in 1..Len(R[o1]), NEW j \in 1..Len(R[o2]),
                       R[o1][i].id = R[o2][j].id
                PROVE  o1 = o2 /\ i = j
    BY DEF SlotsUnique
  <2>1. CASE i \in 1..Len(Q[o1]) /\ j \in 1..Len(Q[o2])
    BY <2>1, <1>5 DEF SlotsUnique
  <2>2. CASE i \in 1..Len(Q[o1]) /\ ~(j \in 1..Len(Q[o2]))
    BY <2>2, <1>5, <1>6, <1>7
  <2>3. CASE ~(i \in 1..Len(Q[o1])) /\ j \in 1..Len(Q[o2])
    BY <2>3, <1>5, <1>6, <1>7
  <2>4. CASE ~(i \in 1..Len(Q[o1])) /\ ~(j \in 1..Len(Q[o2]))
    BY <2>4, <1>6
  <2>. QED BY <2>1, <2>2, <2>3, <2>4
<1>9. InQ(R) = InQ(Q) \cup {x}
  <2>1. Range(R[o0]) = Range(Q[o0]) \cup {x}
    BY <1>4, RangeAppend
  <2>2. \A o \in ObjIds \ {o0} : Range(R[o]) = Range(Q[o])
    BY <1>3
  <2>. QED BY <2>1, <2>2 DEF InQ
<1>. QED BY <1>2, <1>8, <1>9


\* get_user_operations_to_bundle pops the head of a queue: the ids of the
\* slots stay distinct, and the popped operation is in no queue any more.
LEMMA TailSlotsUnique ==
    ASSUME NEW Q \in [ObjIds -> Seq(Op)], NEW o0 \in ObjIds, Q[o0] # <<>>,
           SlotsUnique(Q)
    PROVE  LET R == [Q EXCEPT ![o0] = Tail(Q[o0])]
           IN  /\ R \in [ObjIds -> Seq(Op)]
               /\ SlotsUnique(R)
               /\ InQ(R) \cup {Head(Q[o0])} = InQ(Q)
               /\ Head(Q[o0]).id \notin Ids(InQ(R))
<1>. DEFINE R == [Q EXCEPT ![o0] = Tail(Q[o0])]
            n == Len(Q[o0])
<1>1. /\ n \in Nat /\ n # 0
      /\ Tail(Q[o0]) \in Seq(Op)
      /\ Len(Tail(Q[o0])) = n - 1
      /\ \A i \in 1..(n - 1) : Tail(Q[o0])[i] = Q[o0][i + 1]
      /\ Head(Q[o0]) = Q[o0][1]
  BY HeadTailProperties, EmptySeq
<1>2. R \in [ObjIds -> Seq(Op)]
  BY <1>1
<1>3. \A o \in ObjIds \ {o0} : R[o] = Q[o]
  OBVIOUS
<1>4. R[o0] = Tail(Q[o0])
  OBVIOUS
\* Slot i of R is slot Old(o, i) of Q.
<1>. DEFINE Old(o, i) == IF o = o0 THEN i + 1 ELSE i
<1>5. ASSUME NEW o \in ObjIds, NEW i \in 1..Len(R[o])
      PROVE  Old(o, i) \in 1..Len(Q[o]) /\ R[o][i] = Q[o][Old(o, i)]
             /\ (Old(o, i) # 1 \/ o # o0)
  BY <1>1, <1>3, <1>4
<1>6. SlotsUnique(R)
  <2>. SUFFICES ASSUME NEW o1 \in ObjIds, NEW o2 \in ObjIds,
                       NEW i \in 1..Len(R[o1]), NEW j \in 1..Len(R[o2]),
                       R[o1][i].id = R[o2][j].id
                PROVE  o1 = o2 /\ i = j
    BY DEF SlotsUnique
  <2>1. o1 = o2 /\ Old(o1, i) = Old(o2, j)
    BY <1>5 DEF SlotsUnique
  <2>. QED BY <2>1, <1>1
<1>7. Head(Q[o0]).id \notin Ids(InQ(R))
  <2>. SUFFICES ASSUME NEW o \in ObjIds, NEW i \in 1..Len(R[o]),
                       R[o][i].id = Head(Q[o0]).id
                PROVE  FALSE
    BY DEF Ids, InQ, Range
  <2>1. 1 \in 1..n
    BY <1>1
  <2>. QED BY <1>1, <1>5, <2>1 DEF SlotsUnique
<1>8. InQ(R) \cup {Head(Q[o0])} = InQ(Q)
  <2>1. Range(Q[o0]) = Range(Tail(Q[o0])) \cup {Head(Q[o0])}
    <3>1. DOMAIN Q[o0] = 1..n /\ DOMAIN Tail(Q[o0]) = 1..(n - 1)
      BY <1>1
    <3>2. ASSUME NEW y \in Range(Q[o0]) PROVE y \in Range(Tail(Q[o0])) \cup {Head(Q[o0])}
      <4>1. PICK k \in 1..n : y = Q[o0][k]
        BY <3>1 DEF Range
      <4>2. k = 1 \/ k - 1 \in 1..(n - 1)
        BY <1>1
      <4>3. CASE k - 1 \in 1..(n - 1)
        <5>1. Tail(Q[o0])[k - 1] = y
          BY <1>1, <4>1, <4>3
        <5>. QED BY <3>1, <4>3, <5>1 DEF Range
      <4>. QED BY <1>1, <4>1, <4>2, <4>3
    <3>3. ASSUME NEW y \in Range(Tail(Q[o0])) PROVE y \in Range(Q[o0])
      <4>1. PICK k \in 1..(n - 1) : y = Tail(Q[o0])[k]
        BY <3>1 DEF Range
      <4>2. k + 1 \in 1..n
        BY <1>1
      <4>. QED BY <1>1, <3>1, <4>1, <4>2 DEF Range
    <3>4. Head(Q[o0]) \in Range(Q[o0])
      <4>1. 1 \in 1..n
        BY <1>1
      <4>. QED BY <1>1, <3>1, <4>1 DEF Range
    <3>. QED BY <3>2, <3>3, <3>4
  <2>2. \A o \in ObjIds \ {o0} : Range(R[o]) = Range(Q[o])
    BY <1>3
  <2>. QED BY <1>4, <2>1, <2>2 DEF InQ
<1>. QED BY <1>2, <1>6, <1>7, <1>8


LEMMA IdsFacts ==
    /\ \A A, B : Ids(A \cup B) = Ids(A) \cup Ids(B)
    /\ \A x : Ids({x}) = {x.id}
    /\ Ids({}) = {}
    /\ \A A, B : A \subseteq B => Ids(A) \subseteq Ids(B)
BY DEF Ids

\* The bundle list gets an operation whose id it does not hold yet.
LEMMA AppendSeqUnique ==
    ASSUME NEW s \in Seq(Op), NEW x \in Op, SeqUnique(s), x.id \notin Ids(Range(s))
    PROVE  SeqUnique(Append(s, x))
<1>1. /\ Len(Append(s, x)) = Len(s) + 1
      /\ \A i \in 1..Len(s) : Append(s, x)[i] = s[i]
      /\ Append(s, x)[Len(s) + 1] = x
  BY AppendProperties
<1>2. \A i \in 1..Len(s) : s[i].id \in Ids(Range(s))
  BY DEF Range, Ids
<1>. QED BY <1>1, <1>2 DEF SeqUnique

\* NoOpDuplicated in terms of the queues Q, the bundle list b, the
\* operation F being checked and the returned operations D.
DupFree(Q, b, F, D) ==
    /\ SlotsUnique(Q)
    /\ SeqUnique(b)
    /\ Ids(Range(b)) \cap Ids(InQ(Q) \cup F) = {}
    /\ Ids(F) \cap Ids(InQ(Q)) = {}
    /\ Ids(D) \cap Ids(InQ(Q) \cup F \cup Range(b)) = {}

LEMMA DupFreeNow == NoOpDuplicated <=> DupFree(queue, bundle, InFlight, bundled)
BY DEF NoOpDuplicated, DupFree, SlotsUnique, SeqUnique, InQ, InQueues

LEMMA DupFreeNext == NoOpDuplicated' <=> DupFree(queue', bundle', InFlight', bundled')
BY DEF NoOpDuplicated, DupFree, SlotsUnique, SeqUnique, InQ, InQueues


\* What the steps below use of the types.
LEMMA IdInvTypes ==
    ASSUME IdInv
    PROVE  /\ TypeInv
           /\ nextId \in Nat
           /\ senders \in [Senders -> 0..MaxObjs]
           /\ hpc \in [Handlers -> {"idle", "validating", "appending", "hashing"}]
           /\ hop \in [Handlers -> Op \cup {NoOp}]
           /\ queue \in [ObjIds -> Seq(Op)]
           /\ bundle \in Seq(Op)
BY DEF IdInv, TypeInv, TypeOK

LEMMA InQueuesDef == InQueues = InQ(queue) /\ InQueues' = InQ(queue')
BY DEF InQueues, InQ

LEMMA NextIdType == TypeInv' => nextId' \in Nat
BY DEF TypeInv, TypeOK

\* A step that moves no admitted operation: the queues, the bundling task
\* and the returned bundles are untouched, no add call starts holding an
\* operation, and a call that still holds one keeps its id.
LEMMA QuietIdInv ==
    ASSUME IdInv, TypeInv',
           UNCHANGED <<queue, bundle, bundled, bpc, bOp>>,
           nextId <= nextId',
           \A h \in Pending' : h \in Pending /\ hop'[h].id = hop[h].id
    PROVE  IdInv'
<1>1. NoOpDuplicated'
  <2>1. InFlight' = InFlight
    BY DEF InFlight
  <2>2. DupFree(queue, bundle, InFlight, bundled)
    BY DupFreeNow DEF IdInv
  <2>. QED BY <2>1, <2>2, DupFreeNext
<1>2. Placed' = Placed
  BY DEF Placed, InQueues, InFlight
<1>3. nextId \in Nat /\ nextId' \in Nat
  BY IdInvTypes, NextIdType
<1>4. Ids(Placed') \cup {hop'[h].id : h \in Pending'} \subseteq 1..nextId'
  <2>1. Ids(Placed) \cup {hop[h].id : h \in Pending} \subseteq 1..nextId
    BY DEF IdInv
  <2>2. {hop'[h].id : h \in Pending'} \subseteq {hop[h].id : h \in Pending}
    OBVIOUS
  <2>3. 1..nextId \subseteq 1..nextId'
    BY <1>3
  <2>. QED BY <1>2, <2>1, <2>2, <2>3
<1>. QED BY <1>1, <1>2, <1>4 DEF IdInv


\* add_user_operation receives a request: its operation takes the next
\* request id, which nothing holds yet.
LEMMA ReceiveIdInv ==
    ASSUME IdInv, TypeInv', NEW h \in Handlers, NEW o \in OpSpace, Receive(h, o)
    PROVE  IdInv'
<1>0. /\ nextId \in Nat
      /\ hpc \in [Handlers -> {"idle", "validating", "appending", "hashing"}]
      /\ hop \in [Handlers -> Op \cup {NoOp}]
  BY IdInvTypes
<1>1. nextId \in Nat /\ nextId' = nextId + 1
  BY <1>0 DEF Receive
<1>2. Pending' = Pending \cup {h} /\ h \notin Pending
  BY <1>0 DEF Receive, Pending
<1>3. hop'[h].id = nextId + 1 /\ \A g \in Pending : hop'[g] = hop[g]
  BY <1>0, <1>2 DEF Receive
<1>4. UNCHANGED <<queue, bundle, bundled, bpc, bOp>>
  BY DEF Receive
<1>5. Placed' = Placed /\ InFlight' = InFlight
  BY <1>4 DEF Placed, InQueues, InFlight
<1>6. NoOpDuplicated'
  BY <1>4, <1>5, DupFreeNow, DupFreeNext DEF IdInv
<1>7. Ids(Placed) \cup {hop[g].id : g \in Pending} \subseteq 1..nextId
  BY DEF IdInv
<1>8. \A g \in Pending' : hop'[g].id \notin Ids(Placed')
  BY <1>1, <1>2, <1>3, <1>5, <1>7 DEF IdInv
<1>9. \A f, g \in Pending' : hop'[f].id = hop'[g].id => f = g
  BY <1>1, <1>2, <1>3, <1>7 DEF IdInv
<1>10. Ids(Placed') \cup {hop'[g].id : g \in Pending'} \subseteq 1..nextId'
  BY <1>1, <1>2, <1>3, <1>5, <1>7
<1>. QED BY <1>6, <1>8, <1>9, <1>10 DEF IdInv


\* Sender.add_user_operation appends the call's operation to the captured
\* Sender object: its id, held by no queue, now sits in exactly one slot.
LEMMA AppendOkIdInv ==
    ASSUME IdInv, TypeInv', NEW h \in Handlers, AppendOk(h)
    PROVE  IdInv'
<1>. DEFINE x == hop[h]
            o0 == hobj[h]
            R == [queue EXCEPT ![o0] = Append(queue[o0], x)]
<1>1. h \in Pending /\ x \in Op /\ o0 \in ObjIds /\ queue \in [ObjIds -> Seq(Op)]
  BY DEF AppendOk, Pending, IdInv, TypeInv, TypeOK, LocalsOK
<1>2. x.id \notin Ids(Placed)
  BY <1>1 DEF IdInv
<1>3. Ids(Placed) = Ids(InQ(queue)) \cup Ids(InFlight) \cup Ids(Range(bundle))
                    \cup Ids(bundled)
  BY DEF Placed, InQueues, InQ, Ids
<1>4. x.id \notin Ids(InQ(queue)) /\ x.id \notin Ids(InFlight)
      /\ x.id \notin Ids(Range(bundle)) /\ x.id \notin Ids(bundled)
  BY <1>2, <1>3
<1>7. DupFree(queue, bundle, InFlight, bundled)
  BY DupFreeNow DEF IdInv
<1>5. /\ SlotsUnique(R)
      /\ InQ(R) = InQ(queue) \cup {x}
  BY <1>1, <1>4, <1>7, AppendSlotsUnique DEF DupFree
<1>6. /\ queue' = R
      /\ UNCHANGED <<bundle, bundled, bpc, bOp, hop, nextId>>
      /\ InFlight' = InFlight
  BY DEF AppendOk, InFlight
<1>8. Ids(InQ(queue')) = Ids(InQ(queue)) \cup {x.id}
  BY <1>5, <1>6 DEF Ids
<1>9. DupFree(queue', bundle', InFlight', bundled')
  <2>1. Ids(InQ(queue') \cup InFlight) = Ids(InQ(queue')) \cup Ids(InFlight)
    BY DEF Ids
  <2>2. Ids(InQ(queue') \cup InFlight \cup Range(bundle))
          = Ids(InQ(queue')) \cup Ids(InFlight) \cup Ids(Range(bundle))
    BY DEF Ids
  <2>3. Ids(InQ(queue) \cup InFlight) = Ids(InQ(queue)) \cup Ids(InFlight)
    BY DEF Ids
  <2>4. Ids(InQ(queue) \cup InFlight \cup Range(bundle))
          = Ids(InQ(queue)) \cup Ids(InFlight) \cup Ids(Range(bundle))
    BY DEF Ids
  <2>5. Ids(Range(bundle)) \cap Ids(InQ(queue') \cup InFlight) = {}
    BY <1>4, <1>7, <1>8, <2>1, <2>3 DEF DupFree
  <2>6. Ids(InFlight) \cap Ids(InQ(queue')) = {}
    BY <1>4, <1>7, <1>8 DEF DupFree
  <2>7. Ids(bundled) \cap Ids(InQ(queue') \cup InFlight \cup Range(bundle)) = {}
    BY <1>4, <1>7, <1>8, <2>2, <2>4 DEF DupFree
  <2>8. SlotsUnique(queue') /\ SeqUnique(bundle)
    BY <1>5, <1>6, <1>7 DEF DupFree
  <2>. QED BY <1>6, <2>5, <2>6, <2>7, <2>8 DEF DupFree
<1>10. Pending' = Pending \ {h}
  BY IdInvTypes DEF AppendOk, Pending
<1>11. Ids(Placed') = Ids(Placed) \cup {x.id}
  <2>0. InQueues' = InQ(queue') /\ InQueues = InQ(queue)
    BY DEF InQueues, InQ
  <2>1. Placed' = Placed \cup {x}
    BY <1>5, <1>6, <2>0 DEF Placed
  <2>. QED BY <2>1 DEF Ids
<1>12. \A g \in Pending' : hop'[g].id \notin Ids(Placed')
  BY <1>1, <1>6, <1>10, <1>11 DEF IdInv
<1>13. \A f, g \in Pending' : hop'[f].id = hop'[g].id => f = g
  BY <1>6, <1>10 DEF IdInv
<1>14. Ids(Placed') \cup {hop'[g].id : g \in Pending'} \subseteq 1..nextId'
  BY <1>1, <1>6, <1>10, <1>11 DEF IdInv
<1>. QED BY <1>9, <1>12, <1>13, <1>14, DupFreeNext DEF IdInv


\* get_user_operations_to_bundle pops the head of the next sender's queue
\* (lines 108-111): the operation moves from its slot to the bundling
\* task, which held none.
LEMMA BundleVisitIdInv ==
    ASSUME IdInv, TypeInv', BundleVisit
    PROVE  IdInv'
<1>1. PICK a \in Senders :
        /\ senders[a] # 0
        /\ IF Len(queue[senders[a]]) > 0
             THEN /\ bOp' = Head(queue[senders[a]])
                  /\ queue' = [queue EXCEPT ![senders[a]] = Tail(queue[senders[a]])]
                  /\ bpc' = "check"
             ELSE UNCHANGED <<bOp, queue, bpc>>
  BY DEF BundleVisit
<1>2. UNCHANGED <<bundle, bundled, hpc, hop, nextId>> /\ bpc = "loop"
  BY DEF BundleVisit
<1>3. CASE ~(Len(queue[senders[a]]) > 0)
  <2>1. \A h \in Pending' : h \in Pending /\ hop'[h].id = hop[h].id
    BY <1>2 DEF Pending
  <2>2. nextId <= nextId'
    BY <1>2, IdInvTypes
  <2>. QED BY <1>1, <1>2, <1>3, <2>1, <2>2, QuietIdInv
<1>4. CASE Len(queue[senders[a]]) > 0
  <2>. DEFINE o0 == senders[a]
              y == Head(queue[o0])
              R == [queue EXCEPT ![o0] = Tail(queue[o0])]
  <2>1. o0 \in ObjIds /\ queue \in [ObjIds -> Seq(Op)] /\ queue[o0] # <<>>
    BY <1>1, <1>4, IdInvTypes DEF ObjIds
  <2>2. DupFree(queue, bundle, InFlight, bundled) /\ InFlight = {}
    BY <1>2, DupFreeNow DEF IdInv, InFlight
  <2>3. /\ SlotsUnique(R)
        /\ InQ(R) \cup {y} = InQ(queue)
        /\ y.id \notin Ids(InQ(R))
    BY <2>1, <2>2, TailSlotsUnique DEF DupFree
  <2>4. queue' = R /\ InFlight' = {y}
    BY <1>1, <1>4 DEF InFlight
  <2>5. Ids(InQ(queue')) \cup {y.id} = Ids(InQ(queue))
    BY <2>3, <2>4 DEF Ids
  <2>6. DupFree(queue', bundle', InFlight', bundled')
    <3>1. Ids(InQ(queue') \cup InFlight') = Ids(InQ(queue))
      BY <2>4, <2>5 DEF Ids
    <3>0. InQ(queue') \cup InFlight' = InQ(queue) \cup InFlight
      BY <2>2, <2>3, <2>4
    <3>2. Ids(InQ(queue') \cup InFlight' \cup Range(bundle))
            = Ids(InQ(queue) \cup InFlight \cup Range(bundle))
      BY <3>0
    <3>3. Ids(InQ(queue) \cup InFlight) = Ids(InQ(queue))
      BY <2>2 DEF Ids
    <3>4. Ids(InFlight') \cap Ids(InQ(queue')) = {}
      BY <2>3, <2>4 DEF Ids
    <3>. QED BY <1>2, <2>2, <2>3, <2>4, <3>1, <3>2, <3>3, <3>4 DEF DupFree
  <2>7. Placed' = Placed
    BY <1>2, <2>2, <2>3, <2>4, InQueuesDef DEF Placed
  <2>8. Pending' = Pending
    BY <1>2 DEF Pending
  <2>. QED BY <1>2, <2>6, <2>7, <2>8, DupFreeNext DEF IdInv
<1>. QED BY <1>3, <1>4


\* Lines 120-122: the checked operation joins the bundle list, which did
\* not hold its id.
LEMMA BundleAcceptIdInv ==
    ASSUME IdInv, TypeInv', BundleAccept
    PROVE  IdInv'
<1>1. /\ bpc = "check" /\ bpc' = "loop"
      /\ bundle' = Append(bundle, bOp)
      /\ UNCHANGED <<queue, bundled, hpc, hop, nextId>>
  BY DEF BundleAccept
<1>2. InFlight = {bOp} /\ InFlight' = {}
  BY <1>1 DEF InFlight
<1>3. bOp \in Op /\ bundle \in Seq(Op)
  BY <1>1 DEF IdInv, TypeInv, TypeOK, LocalsOK
<1>4. DupFree(queue, bundle, InFlight, bundled)
  BY DupFreeNow DEF IdInv
<1>5. Range(bundle') = Range(bundle) \cup {bOp}
  BY <1>1, <1>3, RangeAppend
<1>6. bOp.id \notin Ids(Range(bundle)) /\ bOp.id \notin Ids(InQ(queue))
  <2>1. bOp.id \in Ids(InQ(queue) \cup InFlight) /\ bOp.id \in Ids(InFlight)
    BY <1>2 DEF Ids
  <2>. QED BY <1>4, <2>1 DEF DupFree
<1>7. InQ(queue') \cup InFlight' \cup Range(bundle')
        = InQ(queue) \cup InFlight \cup Range(bundle)
  BY <1>1, <1>2, <1>5
<1>8. DupFree(queue', bundle', InFlight', bundled')
  <2>1. SeqUnique(bundle')
    BY <1>1, <1>3, <1>4, <1>6, AppendSeqUnique DEF DupFree
  <2>2. Ids(Range(bundle')) \cap Ids(InQ(queue') \cup InFlight') = {}
    <3>1. Ids(Range(bundle')) = Ids(Range(bundle)) \cup {bOp.id}
      BY <1>5 DEF Ids
    <3>2. Ids(InQ(queue') \cup InFlight') = Ids(InQ(queue))
      BY <1>1, <1>2 DEF Ids
    <3>3. Ids(InQ(queue) \cup InFlight) = Ids(InQ(queue)) \cup {bOp.id}
      BY <1>2 DEF Ids
    <3>. QED BY <1>4, <1>6, <3>1, <3>2, <3>3 DEF DupFree
  <2>3. Ids(InFlight') \cap Ids(InQ(queue')) = {}
    BY <1>2 DEF Ids
  <2>4. Ids(bundled') \cap Ids(InQ(queue') \cup InFlight' \cup Range(bundle')) = {}
    BY <1>1, <1>4, <1>7 DEF DupFree
  <2>. QED BY <1>1, <1>4, <2>1, <2>2, <2>3, <2>4 DEF DupFree
<1>9. Placed' = Placed
  BY <1>7, <1>1, InQueuesDef DEF Placed
<1>10. Pending' = Pending
  BY <1>1 DEF Pending
<1>. QED BY <1>1, <1>8, <1>9, <1>10, DupFreeNext DEF IdInv

\* Lines 124-126: the bundle is returned; its operations, in no queue and
\* not being checked, join the returned ones.
LEMMA BundleReturnIdInv ==
    ASSUME IdInv, TypeInv', BundleReturn
    PROVE  IdInv'
<1>1. /\ bpc = "loop" /\ bpc' = "idle"
      /\ bundle' = <<>> /\ bundled' = bundled \cup Range(bundle)
      /\ UNCHANGED <<queue, hpc, hop, nextId>>
  BY DEF BundleReturn
<1>2. InFlight = {} /\ InFlight' = {} /\ Range(bundle') = {}
  BY <1>1, RangeEmpty DEF InFlight
<1>3. DupFree(queue, bundle, InFlight, bundled)
  BY DupFreeNow DEF IdInv
<1>4. DupFree(queue', bundle', InFlight', bundled')
  <2>1. SeqUnique(bundle')
    BY <1>1 DEF SeqUnique
  <2>2. Ids(Range(bundle')) = {} /\ Ids(InFlight') = {}
    BY <1>2 DEF Ids
  <2>3. Ids(bundled') = Ids(bundled) \cup Ids(Range(bundle))
    BY <1>1 DEF Ids
  <2>4. Ids(InQ(queue') \cup InFlight' \cup Range(bundle')) = Ids(InQ(queue))
    BY <1>1, <1>2 DEF Ids
  <2>5. Ids(InQ(queue) \cup InFlight) = Ids(InQ(queue))
    BY <1>2 DEF Ids
  <2>6. Ids(InQ(queue) \cup InFlight \cup Range(bundle))
          = Ids(InQ(queue)) \cup Ids(Range(bundle))
    BY <1>2 DEF Ids
  <2>7. Ids(bundled') \cap Ids(InQ(queue') \cup InFlight' \cup Range(bundle')) = {}
    BY <1>3, <2>3, <2>4, <2>5, <2>6 DEF DupFree
  <2>. QED BY <1>1, <1>3, <2>1, <2>2, <2>7 DEF DupFree
<1>5. Placed' = Placed
  BY <1>1, <1>2 DEF Placed, InQueues
<1>6. Pending' = Pending
  BY <1>1 DEF Pending
<1>. QED BY <1>1, <1>4, <1>5, <1>6, DupFreeNext DEF IdInv


\* A step of the bundling task that only lets go of operations: the
\* bundle list is emptied or kept, and no operation is being checked after
\* it (BundleStart, BundleDrop and the three exceptions of Abort).
LEMMA ReleaseIdInv ==
    ASSUME IdInv, TypeInv',
           UNCHANGED <<queue, bundled, hpc, hop, nextId>>,
           bpc' # "check",
           bundle' = <<>> \/ bundle' = bundle
    PROVE  IdInv'
<1>1. InFlight' = {}
  BY DEF InFlight
<1>2. Range(bundle') \subseteq Range(bundle)
  BY RangeEmpty
<1>3. DupFree(queue, bundle, InFlight, bundled)
  BY DupFreeNow DEF IdInv
<1>4. /\ Ids(Range(bundle')) \subseteq Ids(Range(bundle))
      /\ Ids(InFlight') = {}
      /\ Ids(InQ(queue') \cup InFlight') \subseteq Ids(InQ(queue) \cup InFlight)
      /\ Ids(InQ(queue') \cup InFlight' \cup Range(bundle'))
           \subseteq Ids(InQ(queue) \cup InFlight \cup Range(bundle))
  BY <1>1, <1>2 DEF Ids
<1>5. SeqUnique(bundle')
  <2>1. CASE bundle' = <<>>
    BY <2>1 DEF SeqUnique
  <2>. QED BY <1>3, <2>1 DEF DupFree
<1>6. DupFree(queue', bundle', InFlight', bundled')
  BY <1>3, <1>4, <1>5 DEF DupFree
<1>7. Placed' \subseteq Placed
  BY <1>1, <1>2 DEF Placed, InQueues
<1>8. Ids(Placed') \subseteq Ids(Placed)
  BY <1>7 DEF Ids
<1>9. Pending' = Pending
  BY DEF Pending
<1>. QED BY <1>6, <1>8, <1>9, DupFreeNext DEF IdInv


LEMMA InitIdInv == Init => IdInv
<1>. SUFFICES ASSUME Init PROVE IdInv
  OBVIOUS
<1>1. TypeInv
  BY InitTypeInv
<1>2. InQ(queue) = {} /\ InFlight = {} /\ Range(bundle) = {} /\ bundled = {}
  BY RangeEmpty DEF Init, InQ, InFlight
<1>3. Pending = {}
  BY DEF Init, Pending
<1>4. DupFree(queue, bundle, InFlight, bundled)
  <2>1. Ids({}) = {}
    BY DEF Ids
  <2>2. SlotsUnique(queue) /\ SeqUnique(bundle)
    BY DEF Init, SlotsUnique, SeqUnique
  <2>. QED BY <1>2, <2>1, <2>2 DEF DupFree
<1>5. Ids(Placed) = {}
  BY <1>2 DEF Placed, InQueues, InQ, Ids
<1>. QED BY <1>1, <1>3, <1>4, <1>5, DupFreeNow DEF IdInv

\* The add steps of one handler.
LEMMA HandlerStepIdInv ==
    ASSUME IdInv, TypeInv', NEW h \in Handlers, HandlerStep(h)
    PROVE  IdInv'
<1>. DEFINE Keeps == \A g \in Pending' : g \in Pending /\ hop'[g].id = hop[g].id
<1>1. nextId \in Nat
  BY IdInvTypes
<1>2. hpc \in [Handlers -> {"idle", "validating", "appending", "hashing"}]
      /\ hop \in [Handlers -> Op \cup {NoOp}]
  BY IdInvTypes
<1>3. CASE ValidateFail(h)
  <2>1. Keeps
    BY <1>2, <1>3 DEF ValidateFail, Pending
  <2>. QED BY <1>1, <1>3, <2>1, QuietIdInv DEF ValidateFail
<1>4. CASE ValidateOk(h)
  <2>1. hpc' = [hpc EXCEPT ![h] = "appending"]
        /\ hop' = [hop EXCEPT ![h].codeHash = CodeHashOf(hop[h], code)]
    BY <1>4 DEF ValidateOk
  <2>0. hpc[h] = "validating" /\ hop[h] \in Op
    BY <1>4 DEF ValidateOk, IdInv, TypeInv, LocalsOK
  <2>1a. hop[h] = [id |-> hop[h].id, sender |-> hop[h].sender,
                   factory |-> hop[h].factory, paymaster |-> hop[h].paymaster,
                   nonce |-> hop[h].nonce, codeHash |-> hop[h].codeHash]
    BY <2>0 DEF Op
  <2>2. hop'[h].id = hop[h].id /\ \A g \in Handlers \ {h} : hop'[g] = hop[g]
    BY <1>2, <2>1, <2>1a, Zenon
  <2>3. Keeps
    BY <1>2, <1>4, <2>0, <2>1, <2>2 DEF Pending
  <2>. QED BY <1>1, <1>4, <2>3, QuietIdInv DEF ValidateOk
<1>5. CASE AppendOk(h)
  BY <1>5, AppendOkIdInv
<1>6. CASE AppendRejected(h)
  <2>1. Keeps
    BY <1>2, <1>6 DEF AppendRejected, Pending
  <2>. QED BY <1>1, <1>6, <2>1, QuietIdInv DEF AppendRejected
<1>7. CASE Finish(h)
  <2>1. Keeps
    BY <1>2, <1>7 DEF Finish, Pending
  <2>. QED BY <1>1, <1>7, <2>1, QuietIdInv DEF Finish
<1>. QED BY <1>3, <1>4, <1>5, <1>6, <1>7 DEF HandlerStep

\* The steps of the bundling task.
LEMMA BundleStepIdInv ==
    ASSUME IdInv, TypeInv', BundleStep
    PROVE  IdInv'
<1>1. CASE BundleStart
  BY <1>1, ReleaseIdInv DEF BundleStart
<1>2. CASE BundleVisit
  BY <1>2, BundleVisitIdInv
<1>3. CASE BundleVisitKeyError
  BY <1>3, ReleaseIdInv DEF BundleVisitKeyError, Abort
<1>4. CASE BundleRpcError
  BY <1>4, ReleaseIdInv DEF BundleRpcError, Abort
<1>5. CASE BundleDrop
  BY <1>5, ReleaseIdInv DEF BundleDrop
<1>6. CASE BundleAccept
  BY <1>6, BundleAcceptIdInv
<1>7. CASE BundleAcceptKeyError
  BY <1>7, ReleaseIdInv DEF BundleAcceptKeyError, Abort
<1>8. CASE BundleReturn
  BY <1>8, BundleReturnIdInv
<1>. QED BY <1>1, <1>2, <1>3, <1>4, <1>5, <1>6, <1>7, <1>8 DEF BundleStep

LEMMA NextIdInv == IdInv /\ [Next]_vars => IdInv'
<1>. SUFFICES ASSUME IdInv, [Next]_vars PROVE IdInv'
  OBVIOUS
<1>0a. TypeInv /\ nextId \in Nat
  BY IdInvTypes
<1>0. TypeInv' /\ nextId \in Nat
  BY <1>0a, NextTypeInv
<1>1. ASSUME NEW h \in Handlers, NEW o \in OpSpace, Receive(h, o) PROVE IdInv'
  BY <1>0, <1>1, ReceiveIdInv
<1>2. ASSUME NEW h \in Handlers, NEW o \in OpSpace, ReceiveRejected(h, o)
      PROVE  IdInv'
  <2>1. \A g \in Pending' : g \in Pending /\ hop'[g].id = hop[g].id
    BY <1>2 DEF ReceiveRejected, Pending
  <2>. QED BY <1>0, <1>2, <2>1, QuietIdInv DEF ReceiveRejected
<1>3. ASSUME NEW h \in Handlers, HandlerStep(h) PROVE IdInv'
  BY <1>0, <1>3, HandlerStepIdInv
<1>4. CASE BundleStep
  BY <1>0, <1>4, BundleStepIdInv
<1>5. CASE ClearUserOperations \/ (\E e \in Upgradeable : ChangeCode(e))
      \/ UNCHANGED vars
  <2>1. UNCHANGED <<queue, bundle, bundled, bpc, bOp, hpc, hop, nextId>>
    BY <1>5 DEF ClearUserOperations, ChangeCode, vars
  <2>2. \A g \in Pending' : g \in Pending /\ hop'[g].id = hop[g].id
    BY <2>1 DEF Pending
  <2>. QED BY <1>0, <2>1, <2>2, QuietIdInv
<1>. QED BY <1>1, <1>2, <1>3, <1>4, <1>5 DEF Next

\* Whatever the interleaving of concurrent add_user_operation calls, of
\* get_user_operations_to_bundle popping heads, checking code hashes and
\* returning bundles, of its exceptions and of clear_user_operations,
\* every admitted operation is in one place at a time: one slot of one
\* Sender queue, the bundle list, the operation being checked or the
\* returned bundles; no bundle returns an operation twice or one that
\* an earlier bundle returned.
THEOREM NoDuplicates == Spec => []NoOpDuplicated
<1>1. Init => IdInv
  BY InitIdInv
<1>2. IdInv /\ [Next]_vars => IdInv'
  BY NextIdInv
<1>3. IdInv => NoOpDuplicated
  BY DEF IdInv
<1>. QED BY <1>1, <1>2, <1>3, PTL DEF Spec

=============================================================================
