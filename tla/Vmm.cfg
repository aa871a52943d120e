SPECIFICATION MCSpec
CONSTANTS TopSpan = 4 Span = 2 NTables = 11
          MaxCount = 2 BootPage = 18 BootFrame = 40 MaxSpaces = 6
          KernelPages = {16, 17, 18, 24} UserPages = {1, 2} Choices <- OneChoice
INVARIANTS TranslationsAgree RingsSeparated KernelHalfShared RangeResult
PROPERTIES KernelMapsPages TasksMapPages
