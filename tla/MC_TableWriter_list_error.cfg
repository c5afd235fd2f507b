CONSTANTS
    h1 = h1  h2 = h2  r1 = r1  r2 = r2  r3 = r3
    Hours <- MCHours
    RowIds <- MCRowIds
    RowsOf <- MCRowsOf
    InitStore <- MCInitStore
    MaxIndex <- MCMaxIndex
    MaxRuns = 2
    ListErrors = TRUE
    NewFileErrors = FALSE
    CloseErrors = FALSE
    DeleteErrors = FALSE
    AddRowErrors = FALSE
SPECIFICATION Spec
PROPERTY WritesRefineTable
