SPECIFICATION Spec
CONSTANTS
    UserNames <- TwoUsers
    Passwords = {"p", "q"}
    Weak = {"q"}
    Perms = {"r"}
    Salts = {1}
    MaxWords = 5
INVARIANTS
    FileSurvivesLoad
    DeletedStaysDeleted
    PasswordHolds
