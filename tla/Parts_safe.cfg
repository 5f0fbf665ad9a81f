CONSTANTS
    window = window  button = button  label = label  panel = panel
    page = page  box = box
    Nil = Nil
    Frame = {window, button, label, panel, page, box}
    Scenes <- MCScenes
    Enabled <- MCEnabled
    KeyHandlers <- MCKeyHandlers
    Places <- MCPlaces
    Buttons <- MCButtons
    AskedLevels = {3}
    MaxShift = 2
    MaxLevel = 6
    MaxDepth = 9
    ScriptTexts <- MCTexts
    MaxLength = 8
    Block = 4
    Handler = {"console", "top", "game", "glue", "screen", "gui"}
    EventOf <- MCEventOf
    Priority <- MCPriority
    Initial <- MCInitial
    Marker = Marker
    MetaKeys = {"shift"}
    OtherKeys = {"a"}
    QueueSize = 3
    MaxChanges = 2
    Guid = {"player", "rival", "boar"}
    Nobody = Nobody
    Player = "player"
    TypeOf <- MCTypeOf
    Field = {"health"}
    Short = 1
    Long = 2
    Width = 8
    Start = 7
    MaxTime = 1
    MaxUpdates = 2
    MaxSent = 4
    Payloads = {2, 3, 6}
    LargeFrom = 5
    FirstSize = 2
    SizeLimit = 32
    Opcode = 2
    MaxMessages = 4
    MaxSends = 3
    MaxConnects = 2
SPECIFICATION PartsSpec
INVARIANTS FramesAgree NoEndlessRecursion FocusAgrees TextSound EventsSound ObjectsAgree StreamInStep
PROPERTIES DeletesOne EachCalledOnce LeaveWhenDue
CHECK_DEADLOCK FALSE
