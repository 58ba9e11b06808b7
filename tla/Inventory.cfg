SPECIFICATION InventorySpec
CONSTANTS
    Editors = {w1, w2}
    Importers = {w3, w4}
    Assets = {a1, a2, a3}
    Stocked = {a1}
    Checkouts = {c1, c2}
    FormStatuses = {"in_service", "checked_out"}
    Batches = {b1, b2}
    Listable = {a2, a3}
    FilesTried <- MCFiles
    Workers = {w5, w6}
    Attachments = {t1, t2}
SYMMETRY Symmetry
CONSTRAINT OneStory
INVARIANTS
    OneOpenCheckout
    LicenseKeptWhileOpen
    CustodyAgrees
    ImportedWhole
    LeftoversReported
PROPERTY
    ClosedForGood
    CirclesOnlyFromForms
