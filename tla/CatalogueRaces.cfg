CONSTANTS
    shirt = shirt
    hat = hat
    soap = soap
    wash = wash
    v1 = v1
    v2 = v2
    v3 = v3
    acme = acme
    bolt = bolt
    c1 = c1
    ml = ml
    kg = kg
    w1 = w1
    w2 = w2
    Items = {shirt, hat, soap, wash}
    Variants = {v1, v2, v3}
    Suppliers = {acme, bolt}
    Codes = {c1}
    Units = {ml, kg}
    Clerks = {w1, w2}
    Kind <- Kinds
    Owner <- Owners
    Default = bolt
    Cap = 4
    Recipes <- RecipesOf
    Origins <- Stages
    Mixes <- Mixed
    Plans <- PlansOf
    MaxRequests = 3
SYMMETRY Symmetry
SPECIFICATION ItemsSpec
INVARIANT RowsFollow
INVARIANT LinksKept
INVARIANT CodesApart
PROPERTY ItemsResent
CHECK_DEADLOCK FALSE
