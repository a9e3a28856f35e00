-------------------------- MODULE BlockBodyProofs --------------------------
(* What verify_body says, for blocks and bodies of any size, and that blocks  *)
(* publish trees.                                                             *)
EXTENDS BlockBody, MerkleProofs

-----------------------------------------------------------------------------
(* Texts.                                                                     *)

LEMMA TextsType ==
  ASSUME NEW txs \in TxLists, \A i \in DOMAIN txs : Sortable(txs[i])
  PROVE  Texts(txs) \in Seq(Data) /\ txs \in Seq(TxValue)
<1>1. txs \in Seq(Tx) /\ Tx \subseteq TxValue
  BY BodyAssumption DEF TxValue
<1>2. txs \in Seq(TxValue)
  <2>1. \A i \in 1 .. Len(txs) : txs[i] \in Tx
    BY <1>1
  <2>2. QED
    BY <1>1, <2>1
<1>3. \A i \in 1 .. Len(txs) : CanonicalJson(txs[i]) \in Data
  BY <1>1, TextAssumption
<1>4. Texts(txs) = [i \in 1 .. Len(txs) |-> CanonicalJson(txs[i])] /\ Len(txs) \in Nat
  BY <1>1 DEF Texts
<1>5. QED
  BY <1>2, <1>3, <1>4

LEMMA LoadsType ==
  ASSUME NEW text \in Data
  PROVE  Loads(text) \in TxValue /\ Loads(text).type = "str"
<1>1. text \in Seq(Key)
  BY BodyAssumption
<1>2. {text[i] : i \in DOMAIN text} \in SUBSET Key
  BY <1>1
<1>3. QED
  BY <1>2 DEF Loads, TxValue

LEMMA DecodeType ==
  ASSUME NEW payload \in Payload
  PROVE  /\ Readable(payload)
         /\ \/ payload.form = "null" /\ Decode(payload) = None
            \/ /\ payload.form = "list" /\ payload.texts \in Seq(Data)
               /\ Decode(payload) = [form |-> "list",
                                     items |-> [i \in 1 .. Len(payload.texts) |->
                                                  Loads(payload.texts[i])]]
               /\ Decode(payload) \in [form : {"list"}, items : Seq(TxValue)]
            \/ /\ payload.form = "items" /\ payload \in [form : {"items"}, texts : Seq(Item)]
               /\ Decode(payload) = payload
            \/ /\ payload.form = "scalar" /\ payload \in [form : {"scalar"}, texts : {<<>>}]
               /\ Decode(payload) = payload
<1>1. Readable(payload)
  BY TextAssumption DEF Readable
<1>2. CASE payload \in [form : {"list"}, texts : Seq(Data)]
  <2> DEFINE texts == payload.texts
             items == [i \in 1 .. Len(texts) |-> Loads(texts[i])]
  <2>1. payload.form = "list" /\ texts \in Seq(Data) /\ Len(texts) \in Nat
        /\ DOMAIN texts = 1 .. Len(texts)
    BY <1>2
  <2>2. Decode(payload) = [form |-> "list", items |-> items]
    BY <1>1, <2>1 DEF Decode
  <2>3. \A i \in 1 .. Len(texts) : Loads(texts[i]) \in TxValue
    BY <2>1, LoadsType
  <2>4. items \in Seq(TxValue)
    BY <2>1, <2>3
  <2> HIDE DEF items
  <2>5. [form |-> "list", items |-> items] \in [form : {"list"}, items : Seq(TxValue)]
    BY <2>4
  <2>6. QED
    BY <1>1, <2>1, <2>2, <2>5 DEF items
<1>3. CASE payload \in [form : {"items"}, texts : Seq(Item)]
  BY <1>1, <1>3 DEF Decode
<1>4. CASE payload \in [form : {"scalar", "null"}, texts : {<<>>}]
  <2>1. payload.form \in {"scalar", "null"} /\ payload.texts = <<>>
        /\ payload = [form |-> payload.form, texts |-> payload.texts]
    BY <1>4
  <2>2. Decode(payload) = IF payload.form = "null" THEN None ELSE payload
    BY <1>1, <2>1 DEF Decode
  <2>3. payload.form = "scalar" => payload \in [form : {"scalar"}, texts : {<<>>}]
    BY <2>1
  <2>4. QED
    BY <1>1, <2>1, <2>2, <2>3
<1>5. QED
  BY <1>2, <1>3, <1>4 DEF Payload

-----------------------------------------------------------------------------
(* The invariant.                                                             *)

Memory == {None}
            \cup [form : {"list"}, items : Seq(TxValue)]
            \cup [form : {"items"}, texts : Seq(Item)]
            \cup [form : {"scalar"}, texts : {<<>>}]

\* What stands in a row that is no list is what the process has in memory.
BodyInv ==
    /\ TypeInv
    /\ memory \in Memory
    /\ body \in {None, Junk} \cup Payload
    /\ Readable(body) /\ body.form \in {"items", "scalar"} => memory = body

LEMMA IntactType ==
  ASSUME transactions \in Seq(Data)
  PROVE  Intact \in Payload /\ Intact.form = "list" /\ Intact.texts = transactions
BY DEF Intact, Json, Payload

LEMMA InitBody == BodyInit => BodyInv
<1> SUFFICES ASSUME BodyInit PROVE BodyInv
  OBVIOUS
<1>1. TypeInv /\ transactions = <<>>
  BY EmptyRoot DEF BodyInit, Init, TypeInv
<1>2. <<>> \in Seq(Data) /\ <<>> \in Seq(TxValue)
  OBVIOUS
<1>3. memory \in Memory
  BY <1>2 DEF BodyInit, Memory
<1>4. body \in Payload /\ body.form = "list"
  BY <1>1, <1>2, IntactType DEF BodyInit
<1>5. QED
  BY <1>1, <1>3, <1>4 DEF BodyInv

\* Blocks do nothing to a list and its root that a publisher could not do.
LEMMA StepsOfBlocks == BodyNext => [Next]_vars
<1>1. ASSUME NEW txs \in TxLists, CreateBlock(txs) PROVE Next
  <2>1. Texts(txs) \in Seq(Data) /\ Publish(Texts(txs))
    BY <1>1, TextsType DEF CreateBlock
  <2>2. QED
    BY <2>1 DEF Next
<1>2. ASSUME NEW index \in 0 .. Len(transactions) - 1, HandOut(index) PROVE Next
  BY <1>2 DEF HandOut, Next
<1>3. ASSUME PruneBlock \/ (\E payload \in Damaged \cup {Intact} : Reload(payload))
                \/ (\E i \in 1 .. MaxShared, tx \in Tx : ChangeTransaction(i, tx))
      PROVE  UNCHANGED vars
  BY <1>3 DEF PruneBlock, Reload, ChangeTransaction, vars
<1>4. QED
  BY <1>1, <1>2, <1>3 DEF BodyNext

LEMMA StepBody == BodyInv /\ TypeInv' /\ [BodyNext]_bodyVars => BodyInv'
<1> SUFFICES ASSUME BodyInv, TypeInv', [BodyNext]_bodyVars PROVE BodyInv'
  OBVIOUS
<1> USE DEF BodyInv
<1>1. ASSUME NEW txs \in TxLists, CreateBlock(txs) PROVE BodyInv'
  <2>1. transactions' \in Seq(Data)
    BY DEF TypeInv
  <2>2. txs \in Seq(TxValue)
    BY <1>1, TextsType DEF CreateBlock
  <2>3. memory' \in Memory
    BY <1>1, <2>2 DEF CreateBlock, Memory
  <2>4. body' = [form |-> "list", texts |-> transactions']
    BY <1>1 DEF CreateBlock, Intact, Json
  <2>5. body' \in Payload /\ body'.form = "list"
    BY <2>1, <2>4 DEF Payload
  <2>6. QED
    BY <2>3, <2>5
<1>2. ASSUME PruneBlock PROVE BodyInv'
  BY <1>2 DEF PruneBlock, Memory, Readable
<1>3. ASSUME NEW payload \in Damaged \cup {Intact}, Reload(payload) PROVE BodyInv'
  <2>1. payload \in {None, Junk} \cup Payload
    BY IntactType, TextAssumption DEF TypeInv
  <2>2. memory' = Decode(payload) /\ body' = payload
    BY <1>3 DEF Reload
  <2>3. CASE payload \in {None, Junk}
    BY <2>2, <2>3 DEF Decode, Readable, Memory
  <2>4. CASE payload \in Payload
    <3>1. Decode(payload) \in Memory
      BY <2>4, DecodeType DEF Memory
    <3>2. payload.form \in {"items", "scalar"} => Decode(payload) = payload
      BY <2>4, DecodeType
    <3>3. QED
      BY <2>2, <2>4, <3>1, <3>2
  <2>5. QED
    BY <2>1, <2>3, <2>4
<1>4. ASSUME NEW i \in 1 .. MaxShared, NEW tx \in Tx, ChangeTransaction(i, tx) PROVE BodyInv'
  <2>1. /\ memory # None /\ memory.form = "list" /\ i \in DOMAIN memory.items
        /\ memory' = [memory EXCEPT !.items[i] = tx] /\ body' = body
    BY <1>4 DEF ChangeTransaction
  <2>2. memory \in [form : {"list"}, items : Seq(TxValue)]
    BY <2>1 DEF Memory
  <2>3. tx \in TxValue
    BY BodyAssumption DEF TxValue
  <2>4. memory' \in [form : {"list"}, items : Seq(TxValue)]
    <3>1. [memory.items EXCEPT ![i] = tx] \in Seq(TxValue)
      BY <2>1, <2>2, <2>3
    <3>2. memory' = [form |-> "list", items |-> [memory.items EXCEPT ![i] = tx]]
      BY <2>1, <2>2
    <3>3. QED
      BY <3>1, <3>2
  <2>5. ~(Readable(body) /\ body.form \in {"items", "scalar"})
    BY <2>1
  <2>6. QED
    BY <2>1, <2>4, <2>5 DEF Memory, Readable
<1>5. CASE memory' = memory /\ body' = body
  BY <1>5 DEF Readable
<1>6. QED
  BY <1>1, <1>2, <1>3, <1>4, <1>5 DEF BodyNext, HandOut, bodyVars

\* A block publishes the tree of its transactions and hands out its proofs.
THEOREM BlocksPublishTrees == BodySpec => Spec
<1>1. BodyInit => Init
  BY DEF BodyInit
<1>2. [BodyNext]_bodyVars => [Next]_vars
  BY StepsOfBlocks DEF bodyVars, vars
<1>3. QED
  BY <1>1, <1>2, PTL DEF BodySpec, Spec

LEMMA BodyInvariance == BodySpec => []BodyInv
<1>1. BodySpec => []TypeInv
  BY BlocksPublishTrees, TypeInvariance, PTL
<1>2. QED
  BY <1>1, InitBody, StepBody, PTL DEF BodySpec

-----------------------------------------------------------------------------
(* What a body that verifies is.                                              *)

LEMMA TrueBodies ==
  ASSUME VerifyBody = "true", ~is_pruned
  PROVE  /\ memory # None /\ Readable(body) /\ Encodable
         /\ body = Json(memory.form, Leaves)
         /\ memory.form # "scalar" /\ Root(Leaves) = root
<1>1. "true" # "false" /\ "true" # "raises"
  OBVIOUS
<1>2. QED
  BY <1>1 DEF VerifyBody

LEMMA LeavesType ==
  ASSUME BodyInv, memory # None
  PROVE  \E T : Leaves \in Seq(T)
<1>1. CASE memory \in [form : {"list"}, items : Seq(TxValue)]
  <2>1. Leaves = [i \in 1 .. Len(memory.items) |-> CanonicalJson(memory.items[i])]
        /\ Len(memory.items) \in Nat
    BY <1>1 DEF Leaves, Texts
  <2> DEFINE n == Len(memory.items)
             f(i) == CanonicalJson(memory.items[i])
  <2> HIDE DEF n, f
  <2>2. Leaves = [i \in 1 .. n |-> f(i)] /\ n \in Nat
    BY <2>1 DEF n, f
  <2>3. Leaves \in Seq({f(i) : i \in 1 .. n})
    BY <2>2
  <2>4. QED
    BY <2>3
<1>2. CASE memory \in [form : {"items"}, texts : Seq(Item)]
  BY <1>2 DEF Leaves
<1>3. CASE memory \in [form : {"scalar"}, texts : {<<>>}]
  <2>1. Leaves = <<>> /\ <<>> \in Seq(Item)
    BY <1>3 DEF Leaves
  <2>2. QED
    BY <2>1
<1>4. QED
  BY <1>1, <1>2, <1>3 DEF BodyInv, Memory

LEMMA Committed == BodyInv => VerifiedBodiesAreCommitted
<1> SUFFICES ASSUME BodyInv, ~is_pruned, VerifyBody = "true" PROVE Leaves = transactions
  BY DEF VerifiedBodiesAreCommitted
<1>1. memory # None /\ Root(Leaves) = root
  BY TrueBodies
<1>2. PICK T : Leaves \in Seq(T)
  BY <1>1, LeavesType
<1>3. transactions \in Seq(Data) /\ root = Root(transactions)
  BY DEF BodyInv, TypeInv
<1>4. Leaves \in Seq(T \cup Data) /\ transactions \in Seq(T \cup Data)
  BY <1>2, <1>3
<1>5. QED
  BY <1>1, <1>3, <1>4, RootInjective

\* Whatever stands in the row, and whatever was changed in memory, a body that
\* verifies is the committed one.
THEOREM VerifiedBodies == BodySpec => []VerifiedBodiesAreCommitted
BY BodyInvariance, Committed, PTL

\* No damage passes for the body but for an empty object or string in place of
\* the empty list.
THEOREM ReportedDamage == BodySpec => []DamageIsReported
<1>1. BodyInv => DamageIsReported
  <2> SUFFICES ASSUME BodyInv, ~is_pruned, body # Intact
               PROVE  CASE VerifyBody = "true" -> transactions = <<>> /\ body = Json("items", <<>>)
                        [] VerifyBody = "false" -> body # Json("scalar", <<>>)
                        [] VerifyBody = "raises" -> body.form = "scalar" \/ ~Encodable
    BY DEF DamageIsReported
  <2>1. ASSUME VerifyBody = "true"
        PROVE  transactions = <<>> /\ body = Json("items", <<>>)
    <3>1. /\ memory # None /\ body = Json(memory.form, Leaves)
          /\ memory.form # "scalar" /\ Leaves = transactions
      BY <2>1, TrueBodies, Committed DEF VerifiedBodiesAreCommitted
    <3>2. memory.form # "list"
      BY <3>1 DEF Intact
    <3>3. memory \in [form : {"items"}, texts : Seq(Item)]
      BY <3>1, <3>2 DEF BodyInv, Memory
    <3>4. transactions \in Seq(Item) /\ transactions \in Seq(Data)
      BY <3>1, <3>3 DEF Leaves, BodyInv, TypeInv
    <3>5. transactions = <<>>
      <4>1. \A i \in 1 .. Len(transactions) : transactions[i] \in Item \cap Data
        BY <3>4
      <4>2. Len(transactions) = 0
        <5>1. Len(transactions) \in Nat
          BY <3>4
        <5>2. 1 \notin 1 .. Len(transactions)
          BY <4>1, TextAssumption
        <5>3. QED
          BY <5>1, <5>2
      <4>3. QED
        BY <3>4, <4>2
    <3>6. memory.form = "items"
      BY <3>3
    <3>7. QED
      BY <3>1, <3>5, <3>6
  <2>2. ASSUME body = Json("scalar", <<>>)
        PROVE  VerifyBody = "raises"
    <3>1. body \in Payload /\ body.form = "scalar" /\ body.texts = <<>>
      BY <2>2 DEF Json, Payload
    <3>2. body # None /\ Readable(body)
      BY <3>1, TextAssumption DEF Readable
    <3>3. memory = body
      BY <3>1, <3>2 DEF BodyInv
    <3>4. Encodable /\ Leaves = <<>> /\ memory.form = "scalar"
      BY <3>1, <3>3 DEF Encodable, Leaves
    <3>5. body = Json(memory.form, Leaves)
      BY <2>2, <3>4
    <3>6. QED
      BY <3>2, <3>3, <3>4, <3>5 DEF VerifyBody
  <2>3. ASSUME VerifyBody = "raises"
        PROVE  body.form = "scalar" \/ ~Encodable
    <3> SUFFICES ASSUME Encodable PROVE body.form = "scalar"
      OBVIOUS
    <3>1. memory.form = "scalar" /\ body = Json(memory.form, Leaves)
      BY <2>3 DEF VerifyBody
    <3>2. QED
      BY <3>1 DEF Json
  <2>4. VerifyBody \in {"true", "false", "raises"}
    BY DEF VerifyBody
  <2>5. CASE VerifyBody = "true"
    BY <2>1, <2>5
  <2>6. CASE VerifyBody = "false"
    BY <2>2, <2>6
  <2>7. CASE VerifyBody = "raises"
    BY <2>3, <2>7
  <2>8. QED
    BY <2>4, <2>5, <2>6, <2>7
<1>2. QED
  BY <1>1, BodyInvariance, PTL

\* A reloaded block verifies if and only if each transaction's text survives a
\* round trip through JSON.
THEOREM IntactBodies == BodySpec => []IntactBodiesVerify
<1>1. BodyInv => IntactBodiesVerify
  <2> SUFFICES ASSUME BodyInv, ~is_pruned, body = Intact, memory = Decode(Intact)
               PROVE  VerifyBody = "true" <=>
                         \A i \in DOMAIN transactions :
                            CanonicalJson(Loads(transactions[i])) = transactions[i]
    BY DEF IntactBodiesVerify
  <2> DEFINE f(i) == CanonicalJson(Loads(transactions[i]))
  <2>1. transactions \in Seq(Data) /\ root = Root(transactions)
        /\ DOMAIN transactions = 1 .. Len(transactions) /\ Len(transactions) \in Nat
    BY DEF BodyInv, TypeInv
  <2>2. Intact \in Payload /\ Intact.form = "list" /\ Intact.texts = transactions
    BY <2>1, IntactType
  <2>3. /\ Readable(body)
        /\ memory = [form |-> "list", items |-> [i \in 1 .. Len(transactions) |->
                                                   Loads(transactions[i])]]
        /\ memory \in [form : {"list"}, items : Seq(TxValue)]
    BY <2>2, DecodeType
  <2>4. memory # None /\ memory.form = "list"
    BY <2>3, TextAssumption
  <2>5. Encodable
    <3>1. \A i \in 1 .. Len(transactions) : Loads(transactions[i]).type = "str"
      BY <2>1, LoadsType
    <3>2. QED
      BY <2>3, <3>1 DEF Encodable, Sortable
  <2>6. Leaves = [i \in 1 .. Len(transactions) |-> f(i)]
    BY <2>3 DEF Leaves, Texts
  <2> HIDE DEF f
  <2>7. Leaves = transactions <=> \A i \in 1 .. Len(transactions) : f(i) = transactions[i]
    BY <2>1, <2>6
  <2>8. VerifyBody = "true" <=> Leaves = transactions
    <3>1. body = Json(memory.form, Leaves) <=> Leaves = transactions
      BY <2>4 DEF Intact, Json
    <3>2. QED
      BY <2>1, <2>3, <2>4, <2>5, <3>1 DEF VerifyBody
  <2>9. QED
    BY <2>1, <2>7, <2>8 DEF f
<1>2. QED
  BY <1>1, BodyInvariance, PTL
=============================================================================
