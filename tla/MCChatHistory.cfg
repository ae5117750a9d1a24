CONSTANTS
    Users = {a, b, c}
    NoUser = NoUser
    Broadcast = Broadcast
    MaxIds = 2
    MaxTime = 2
SYMMETRY Symmetry
SPECIFICATION Spec
INVARIANTS
    TypeOK
    ListsShowMemory
    WindowIsTable
    MailStaysPrivate
    LogoutForgets
