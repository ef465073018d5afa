SPECIFICATION Spec
CONSTANTS
    app = app
    web = web
    s0 = s0
    s1 = s1
    Id <- MCId
    Shard <- MCShard
    ShardOf <- MCShardOf
    Cfg = {c1, c2}
    Ep = {e1}
    BlockSize = 2
    MinFree = 1
    Nil = Nil
SYMMETRY CfgSymmetry
INVARIANTS
    DiffExact
    ShardsMirrorItems
    FilesMatch
