\* Four elements, in every order of calls.
CONSTANTS
    Elem = {n1, n2, n3, n4}
    Root = Root
    Wild = Wild
SYMMETRY Elements
SPECIFICATION ListSpec
INVARIANTS
    LInv
