SPECIFICATION Spec
CONSTANT Clients <- ScreenClients
INVARIANTS InBounds ViewInScrollback SelectionIsLive SelectionFollowsScrolls
PROPERTIES RegionKeepsTheRest ResizeKeepsText ResizeKeepsPrompt AlternateLeavesMain
