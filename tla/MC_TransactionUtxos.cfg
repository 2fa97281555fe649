\* Two Transaction objects built one after the other, each prepared for one
\* of the requests against one local merkle tree, with every shuffle and
\* nonce the random sources can give.
CONSTANTS
    FeeAsset = "SOL"
    EmptyUtxo <- MCEmptyUtxo
    ConfigIn = 2
    ConfigOut = 2
    FIELD = 31
    Nonces = {k1, k2}
    Params <- MCParams
    None = None
    MaxTx = 2
    MaxShuffle = 4
SPECIFICATION Spec
\* the model builds MaxTx transactions and then stops
CHECK_DEADLOCK FALSE
INVARIANTS
    TypeOK
    ShuffleUniform
    ExternalAmountsEncoded
    IndicesMatchReference
