SPECIFICATION Spec
CONSTANTS
    MaxPicks = 2
    MaxRequests = 3
    MaxLength = 3
    MaxChoices = 3
INVARIANTS AvatarIsTheLastSent OneUploadPerPick DialogCanBeSaved SlugStaysUrlSafe TipStaysWhileDue PreviewShowsChoice
CHECK_DEADLOCK FALSE
