----------------------------- MODULE BlockBody -----------------------------
(* The body of one block (chain/block.py): the canonical JSON its leaves and  *)
(* its compressed body are made from, what a reload gets back, intact or      *)
(* damaged, and what verify_body then says.                                   *)
(*                                                                            *)
(* Of a transaction the model keeps the keys of a dictionary in it, since     *)
(* only they make a difference: values come back from JSON with the same      *)
(* text, but keys come back as strings, which sort differently.  LZMA is      *)
(* lossless, so a compressed body is what decompress_block gives.             *)
EXTENDS MerkleTree

CONSTANTS Tx,         \* transactions: [keys, type]
          TxLists,    \* the lists blocks are created from
          IntOrder,   \* the keys that occur, in numeric order ...
          TextOrder,  \* ... and in the order of their decimal notation
          Junk,       \* bytes that are not LZMA, not UTF-8 or not JSON
          Damaged,    \* what may stand in a row in place of the body
          Item,       \* JSON strings in it: keys of an object, characters
          MaxShared   \* bound on the length of lists somebody changes

Key == {IntOrder[i] : i \in DOMAIN IntOrder}

ASSUME BodyAssumption ==
    /\ Key = {TextOrder[i] : i \in DOMAIN TextOrder}
    /\ Tx \subseteq [keys : SUBSET Key, type : {"int", "str", "mixed"}]
    /\ TxLists \subseteq Seq(Tx)
    /\ Data \subseteq Seq(Key)
    /\ MaxShared \in Nat

VARIABLES memory,     \* block.transactions
          body,       \* block.compressed_body
          is_pruned

bodyVars == <<transactions, root, held, memory, body, is_pruned>>

-----------------------------------------------------------------------------
\* sort_keys cannot compare a string with a number.
Sortable(tx) == tx.type # "mixed"

\* json.dumps sorts the keys before it makes strings of them.
CanonicalJson(tx) ==
    SelectSeq(IF tx.type = "int" THEN IntOrder ELSE TextOrder,
              LAMBDA k : k \in tx.keys)

Loads(text) == [keys |-> {text[i] : i \in DOMAIN text}, type |-> "str"]

Texts(txs) == [i \in DOMAIN txs |-> CanonicalJson(txs[i])]

\* A JSON text: a list of objects; an object or a string, whose items are
\* strings; or a number or Boolean, which has no items.
Json(form, texts) == [form |-> form, texts |-> texts]

Payload == [form : {"list"}, texts : Seq(Data)]
             \cup [form : {"items"}, texts : Seq(Item)]
             \cup [form : {"scalar", "null"}, texts : {<<>>}]

\* What json.loads makes of an object in the body, and what clients pass in.
TxValue == [keys : SUBSET Key, type : {"int", "str", "mixed"}]

\* The text of a transaction is that of an object, never of a string.
ASSUME TextAssumption ==
    /\ \A tx \in Tx : Sortable(tx) => CanonicalJson(tx) \in Data
    /\ Item \cap Data = {}
    /\ Damaged \subseteq {None, Junk} \cup Payload
    /\ {None, Junk} \cap Payload = {}
    /\ None \notin [form : {"list"}, items : Seq(TxValue)]

\* The body create() stores: the list of the strings its leaves are made from.
Intact == Json("list", transactions)

\* There is a body, and decompress_block and json.loads raise no ValueError.
Readable(payload) == payload \notin {None, Junk}

\* from_persisted: a body that cannot be decoded leaves transactions None, as
\* JSON's null does.
Decode(payload) ==
    IF ~Readable(payload) \/ payload.form = "null" THEN None
    ELSE IF payload.form = "list"
         THEN [form |-> "list", items |-> [i \in DOMAIN payload.texts |-> Loads(payload.texts[i])]]
         ELSE payload

Encodable == memory.form = "list" => \A i \in DOMAIN memory.items : Sortable(memory.items[i])

Leaves == IF memory.form = "list" THEN Texts(memory.items) ELSE memory.texts

-----------------------------------------------------------------------------
\* verify_body as it would be without the comparison with the body, ...
MutantNoComparison ==
    IF is_pruned THEN "true"
    ELSE IF memory = None \/ ~Readable(body) THEN "false"
    ELSE IF ~Encodable \/ memory.form = "scalar" THEN "raises"
    ELSE IF Root(Leaves) = root THEN "true" ELSE "false"

\* ... without the comparison with the header, ...
MutantNoRoot ==
    IF is_pruned THEN "true"
    ELSE IF memory = None \/ ~Readable(body) THEN "false"
    ELSE IF ~Encodable THEN "raises"
    ELSE IF body = Json(memory.form, Leaves) THEN "true" ELSE "false"

\* ... and with "not self.transactions" in place of "is None".
MutantFalsy ==
    IF is_pruned THEN "true"
    ELSE IF memory = None \/ ~Readable(body) \/ Leaves = <<>> THEN "false"
    ELSE IF ~Encodable THEN "raises"
    ELSE IF body # Json(memory.form, Leaves) THEN "false"
    ELSE IF Root(Leaves) = root THEN "true" ELSE "false"

VerifyBody ==
    IF is_pruned THEN "true"
    ELSE IF memory = None \/ ~Readable(body) THEN "false"
    ELSE IF ~Encodable THEN "raises"
    ELSE IF body # Json(memory.form, Leaves) THEN "false"
    ELSE IF memory.form = "scalar" THEN "raises"
    ELSE IF Root(Leaves) = root THEN "true" ELSE "false"

-----------------------------------------------------------------------------
\* A block without transactions, as a chain's genesis.
BodyInit ==
    /\ Init
    /\ memory = [form |-> "list", items |-> <<>>]
    /\ body = Intact
    /\ is_pruned = FALSE

\* Block.create: a TypeError, and no block, if some keys cannot be sorted.
CreateBlock(txs) ==
    /\ \A i \in DOMAIN txs : Sortable(txs[i])
    /\ Publish(Texts(txs))
    /\ memory' = [form |-> "list", items |-> txs]
    /\ body' = Intact'
    /\ is_pruned' = FALSE

PruneBlock ==
    /\ memory' = None
    /\ body' = None
    /\ is_pruned' = TRUE
    /\ UNCHANGED vars

\* The block of a row that is not marked pruned; the row may be damaged.
Reload(payload) ==
    /\ memory' = Decode(payload)
    /\ body' = payload
    /\ is_pruned' = FALSE
    /\ UNCHANGED vars

\* list(transactions) copies no dictionary: whoever passed one in, or reads
\* block.transactions, can still change it.
ChangeTransaction(i, tx) ==
    /\ memory # None /\ memory.form = "list"
    /\ i \in DOMAIN memory.items /\ Len(memory.items) <= MaxShared     \* bound
    /\ memory' = [memory EXCEPT !.items[i] = tx]
    /\ UNCHANGED <<transactions, root, held, body, is_pruned>>

\* A proof for a transaction of a block that has its body.
HandOut(index) ==
    /\ ~is_pruned /\ VerifyBody = "true"
    /\ Prove(index)
    /\ UNCHANGED <<memory, body, is_pruned>>

\* Bound: the body changes only before the first proof is out, since a proof
\* depends on the lists alone.
BodyNext ==
    \/ \E txs \in TxLists : CreateBlock(txs)
    \/ \E index \in 0 .. Len(transactions) - 1 : HandOut(index)
    \/ held = None /\ PruneBlock
    \/ held = None /\ \E payload \in Damaged \cup {Intact} : Reload(payload)
    \/ held = None /\ \E i \in 1 .. MaxShared, tx \in Tx : ChangeTransaction(i, tx)

BodySpec == BodyInit /\ [][BodyNext]_bodyVars

-----------------------------------------------------------------------------
\* A body that is present and verifies is the committed one: the transactions
\* in memory give the leaves of the header's root, whatever damaged the row or
\* changed a dictionary since (block.py:130-141).
VerifiedBodiesAreCommitted ==
    ~is_pruned /\ VerifyBody = "true" => Leaves = transactions

\* A damaged row never verifies, with one exception: {} and "" in place of the
\* empty list of a block without transactions.  verify_body says False, except
\* that it raises - although it "never raises on bad data" - on a number or a
\* Boolean, and on a dictionary changed to keys that do not sort
\* (block.py:78-114, 122-141).
DamageIsReported ==
    ~is_pruned /\ body # Intact =>
        CASE VerifyBody = "true"   -> transactions = <<>> /\ body = Json("items", <<>>)
          [] VerifyBody = "false"  -> body # Json("scalar", <<>>)
          [] VerifyBody = "raises" -> body.form = "scalar" \/ ~Encodable

\* A block that comes back from an intact row verifies exactly if the text of
\* each transaction survives a round trip: number keys that sort differently
\* as strings make a false alarm, although the body is "always guaranteed to
\* reproduce merkle_root" (block.py:54-57, 63-65; canonical.py:14).
IntactBodiesVerify ==
    ~is_pruned /\ body = Intact /\ memory = Decode(Intact) =>
        (VerifyBody = "true" <=>
            \A i \in DOMAIN transactions :
                CanonicalJson(Loads(transactions[i])) = transactions[i])
=============================================================================
