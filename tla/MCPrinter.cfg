CONSTANT Trees <- MCTrees
SPECIFICATION Spec
INVARIANT
    FileTellsTree
