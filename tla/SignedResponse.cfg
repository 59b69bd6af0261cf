SPECIFICATION SignedSpec
CONSTANTS
    Names = {1, 2}
    Lexemes <- MCLexemes
    Claims <- MCClaims
    MaxMembers = 2
    Exact = 4
INVARIANTS
    SignatureIsSound
    HashIsOfTheMeaning
