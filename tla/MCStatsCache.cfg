\* Safety and refinement: entries expire, writes land late, bumps fail.
CONSTANTS
    c1 = c1
    c2 = c2
    r1 = r1
    here = here
    None = None
    Change <- MCChange
    Request = {r1}
    DataCentre = {here}
    Queries = 2
SPECIFICATION Spec
PROPERTIES
    ImplementsStatistics
SYMMETRY
    Interchangeable
