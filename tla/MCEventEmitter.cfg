CONSTANTS
    Listeners = {f}
    Emitters = {ee1}
    Types = {x, y}
    Limits = {0, 1}
    NoFunction = NoFunction
    MaxOnce = 1
    Arrays = {a1, a2, a3}
    NoArray = NoArray
    MaxRegistered = 3
    MaxDepth = 2
SPECIFICATION Spec
SYMMETRY Symmetry
PROPERTY CountsKept
PROPERTY ImplementsEmitter
