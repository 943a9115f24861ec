SPECIFICATION Spec
CONSTANT
    Program = {p1, p2, p3, p4}
SYMMETRY Symmetry
PROPERTIES
    DiesOnlyOfCreation
    EditsSurvive
