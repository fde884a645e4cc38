\* Two ids, three documents, one of which splits.
SPECIFICATION Spec
CONSTANTS
    Ids = {x, y}
    Documents = {plain, other, splits}
    Splitting = {splits}
    MaxTopK = 2
    None = None

PROPERTY StoreReadsItsOwn
