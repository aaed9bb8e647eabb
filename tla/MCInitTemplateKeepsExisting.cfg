CONSTANTS
    BaseTemplate <- MCBaseTemplate
    FrontendFiles <- MCFrontendFiles
    Examples <- MCExamples
    ExampleFiles <- MCExampleFiles
    Requests <- MCRequests
    MaxRuns = 2
    MaxCrashes = 1
    MaxEdits = 1
SPECIFICATION Spec
PROPERTY
    TemplateKeepsExisting
