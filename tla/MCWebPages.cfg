CONSTANTS
    myModal = myModal
    myModal1 = myModal1
    Dialog <- MCDialog
    Static <- MCStatic
    WaitDialog = myModal
    NumItems = 3
    MaxChoices = 2
    MaxDue = 2
    MaxBackdrops = 3
    NumPanels = 2
    MaxHurries = 1
    MaxRequests = 2
    NumLinks = 0
    MaxSize = 4
    View = 2
    today = today
    yesterday = yesterday
    Day <- MCDay
    Today = today
    NoDay = NoDay
    MaxQuestions = 3
\* A test that failed, or a dialog in a hidden panel, leaves a page that stops.
CHECK_DEADLOCK FALSE
SPECIFICATION WebSpec
INVARIANTS
    IndicatorAgrees
    NoChoiceLost
    RideIsKept
    PatientUserGoesOn
    PatientOneOpenPanel
    PatientHeadingsAgree
    PatientNothingLeft
    OneTestAtATime
    
PROPERTIES
    RideGoesOn
    PageComesBack
