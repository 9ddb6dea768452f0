\* Two accounts, one created and enrolled here, used from one browser by two requests at a time.
SPECIFICATION SignInSpec
CONSTANTS
    ann = ann
    bob = bob
    home = home
    r1 = r1
    r2 = r2
    Nobody = Nobody
    Users = {ann, bob}
    Superusers = {bob}
    Browsers = {home}
    Requests = {r1, r2}
    Methods = {"totp", "email", "recovery"}
    Limit <- OneOrTwo
    Window = 1
    Block = 1
    CodeCount = 1
    MaxDevices <- AnnEnrols
    MaxRows = 1
INVARIANTS
    VerifiedAsSelf
    EnabledHasDevice
    AttemptsLeft
    MailsBounded
SYMMETRY RequestSymmetry
